---- MODULE Spec2Model ----
(***************************************************************************)
(* The credit ledger of leadblitz (app/services/credits.py,                *)
(* app/services/credit_drip.py, the admin, credits and pages routers) and  *)
(* the handlers that spend credits, as a state machine over the committed  *)
(* database rows and the state of each SQLAlchemy session.                 *)
(*                                                                         *)
(* Database: PostgreSQL at its default isolation level (READ COMMITTED).   *)
(* A session is made by SessionLocal (autoflush=False,                     *)
(* expire_on_commit=False): a query returns the object of the session's    *)
(* identity map when the row is already loaded there, with its attributes  *)
(* as loaded (no populate_existing), and a commit does not expire it.  The *)
(* identity map references its objects weakly, so a loaded object stays    *)
(* for as long as the runtime keeps it alive: Forget releases it at an     *)
(* arbitrary moment.                                                       *)
(***************************************************************************)
EXTENDS Integers, Sequences, FiniteSets, TLC

VARIABLES
    row,        \* the committed user_credits row of the user
    cstate,     \* the committed credit_states row of the user
    txns,       \* the committed credit_transactions rows, in insertion order
    payments,   \* stripe_session_id of the committed payments rows
    lock,       \* the session whose transaction holds the user_credits row lock
    pc,         \* per session: where its handler stands
    op,         \* per session: the handler it runs and its arguments
    obj,        \* per session: the UserCredits object of its identity map, <<>> when absent
    cso,        \* per session: the CreditState object of its identity map, <<>> when absent
    dirty,      \* per session: attributes of obj modified and not yet flushed by a commit
    pend,       \* per session: CreditTransaction rows added and not yet committed
    cspend,     \* per session: the issuance_cursor to write at the next commit, <<>> when none
    newrow,     \* per session: it has INSERTed the user_credits row and not yet committed
    ret,        \* per session: what its last ledger call returned
    nops,       \* handler invocations started so far
    nOk,        \* deduct_credits calls that returned ok=True
    nFail,      \* deduct_credits calls that returned ok=False
    credited,   \* sum of the amounts credited by committed mutations
    debited,    \* sum of the costs of committed debits
    secret,     \* Settings.stripe_webhook_secret is configured
    startBal,   \* the committed balance the run starts from
    unitCost,   \* the cost of each call of a run of equal debits (0: costs vary)
    job,        \* per session: the handler's loop over its leads
    batch,      \* the _batch_status entry of the batch the worker runs
    nPaid,      \* paid operations (scoring, SMS, Hunter, AI email) invoked
    calc,       \* a pure function under evaluation: its name, arguments, result
    batch_status, \* the keys of _batch_status (app/routers/scoring.py), oldest first
    send_status,  \* the keys of _send_status (app/routers/email.py), oldest first
    polled,     \* what the last batch_score_status request read: the batch id and its entry
    score_cache,  \* the committed score_cache rows, in insertion order
    hour,       \* datetime.now(timezone.utc), in whole hours
    saver,      \* per session: where its save_score_to_cache call stands
    got,        \* the last get_cached_score call: its arguments and its result
    saved       \* the last save_score_to_cache call whose commit succeeded

ledger == <<row, cstate, txns, payments>>
sess   == <<lock, pc, op, obj, cso, dirty, pend, cspend, newrow, ret>>
ghost  == <<nops, nOk, nFail, credited, debited>>
conf   == <<secret, startBal, unitCost>>
work   == <<job, batch, nPaid>>
maps   == <<batch_status, send_status, polled>>
cachest == <<score_cache, hour, saver, got, saved>>
vars   == <<row, cstate, txns, payments, lock, pc, op, obj, cso, dirty, pend,
            cspend, newrow, ret, nops, nOk, nFail, credited, debited, secret,
            startBal, unitCost, job, batch, nPaid, calc, batch_status,
            send_status, polled, score_cache, hour, saver, got, saved>>

(***************************************************************************)
(* Bounds of the model.                                                    *)
(***************************************************************************)
MaxOps == 3          \* handler invocations per run
MaxCalls == 3        \* deduct_credits calls of a run of equal debits
MaxBalance == 3      \* largest starting balance of a run of equal debits
StatusCapacity == 2   \* the capacity the status maps are held against

Sessions == {"s1", "s2"}
Free == "free"

(***************************************************************************)
(* Program constants.                                                      *)
(***************************************************************************)
CREDIT_COSTS ==
    [ai_scoring |-> 1, email_send |-> 0, sms_send |-> 2, lead_search |-> 0,
     email_personalization |-> 1]

Actions == DOMAIN CREDIT_COSTS

ZeroRow == [balance |-> 0, total_purchased |-> 0, total_used |-> 0]

\* The handler a session runs: kind names it, call the ledger function whose
\* commit is pending, back the place the handler resumes at when the call
\* returns; credit and debit are the balance change the pending commit carries;
\* sub and time are the subscription and clock reading of a drip issuance.
NoSub ==
    [status |-> "none", package_id |-> "", hasPeriod |-> FALSE,
     current_period_start |-> 0, current_period_end |-> 0]
NoOp ==
    [kind |-> "none", call |-> "none", back |-> "idle", cost |-> 0, amount |-> 0,
     sid |-> "", sig |-> FALSE, credit |-> 0, debit |-> 0,
     sub |-> NoSub, time |-> 0]
NoRet == [status |-> "none", balance |-> 0]

\* No function is under evaluation.
NoCalc == [fn |-> "none", arg |-> <<>>, res |-> <<>>]

\* No handler loop is running; no batch was started.
NoScore == [heuristic |-> "none", ai_review |-> "none", final_score |-> 0,
            confidence |-> 0]
NoSave == [pc |-> "idle", url_hash |-> <<>>, normalized |-> <<>>,
           score_data |-> NoScore, entry |-> <<>>]
NoGot == [url_hash |-> <<>>, max_age_hours |-> 0, at |-> 0, res |-> <<>>]
NoSaved == [url_hash |-> <<>>, score_data |-> NoScore, at |-> 0]

NoJob == [handler |-> "none", leads |-> <<>>]
NoBatch ==
    [status |-> "none", total |-> 0, scored |-> 0, failed |-> 0, skipped |-> 0,
     error |-> FALSE]
NoPoll == [id |-> 0, seen |-> NoBatch]

RECURSIVE SumAmount(_)
SumAmount(t) == IF t = <<>> THEN 0 ELSE t[1].amount + SumAmount(Tail(t))

CommittedBalance == IF row.exists THEN row.balance ELSE 0

(***************************************************************************)
(* Queries on user_credits.                                                *)
(***************************************************************************)
\* db.query(UserCredits).filter_by(user_id=...).first(): the identity map's
\* object as loaded when there is one, else the committed row; with no row the
\* callers build UserCredits(balance=0) and flush it.
QueryFirst(s) ==
    IF obj[s] # <<>> THEN obj[s][1]
    ELSE IF row.exists
         THEN [balance |-> row.balance, total_purchased |-> row.total_purchased,
               total_used |-> row.total_used]
         ELSE ZeroRow

NeedsInsert(s) == obj[s] = <<>> /\ ~row.exists

\* The flushed INSERT waits on the unique index of user_id while another
\* transaction holds an uncommitted insert of the same user.
InsertFree(s) == NeedsInsert(s) => \A t \in Sessions \ {s} : ~newrow[t]

\* SELECT ... FOR UPDATE waits while another transaction holds the row lock.
LockFree(s) == lock \in {Free, s}

\* A row that exists is locked by the select; one that does not is not.
LockAfterSelect(s) == IF row.exists THEN s ELSE lock


(***************************************************************************)
(* CreditManager (app/services/credits.py).                                *)
(***************************************************************************)
\* The attributes whose value an assignment changed: the UPDATE a flush emits
\* sets these columns, to the values the session holds.
Changed(old, new) ==
    {a \in {"balance", "total_purchased", "total_used"} : old[a] # new[a]}

TxnRow(amount, type, sid, after) ==
    [amount |-> amount, type |-> type, sid |-> sid, balance_after |-> after]

\* get_or_create: an unlocked query; a missing row is created and flushed.
GetOrCreateEffect(s) ==
    /\ InsertFree(s)
    /\ obj' = [obj EXCEPT ![s] = <<QueryFirst(s)>>]
    /\ newrow' = [newrow EXCEPT ![s] = @ \/ NeedsInsert(s)]

InsufficientFundsLax(balance, cost) == balance <= 0

\* if balance < cost: return False, balance
InsufficientFunds(balance, cost) == balance < cost

UsageAmountLax(cost) == cost

\* amount=-cost of the usage transaction
UsageAmount(cost) == 0 - cost

\* credits.balance = balance - cost; credits.total_used += cost
Debit(c, cost) ==
    [c EXCEPT !.balance = c.balance - cost, !.total_used = c.total_used + cost]

\* credits.balance += amount; credits.total_purchased += amount
Credit(c, amount) ==
    [c EXCEPT !.balance = c.balance + amount,
              !.total_purchased = c.total_purchased + amount]

\* deduct_credits past the zero-cost return: SELECT ... FOR UPDATE (creating
\* and flushing a missing row), the balance check, and on success the
\* decrement and the usage transaction, up to the commit. An insufficient
\* balance returns at once: nothing is rolled back, so the row lock stays with
\* the session's open transaction.
EnterDeduct(s, o) ==
    /\ LockFree(s)
    /\ InsertFree(s)
    /\ LET c == QueryFirst(s)
           balance == c.balance
           d == Debit(c, o.cost)
       IN  /\ lock' = LockAfterSelect(s)
           /\ newrow' = [newrow EXCEPT ![s] = @ \/ NeedsInsert(s)]
           /\ IF InsufficientFunds(balance, o.cost)
              THEN /\ obj' = [obj EXCEPT ![s] = <<c>>]
                   /\ ret' = [ret EXCEPT ![s] =
                                 [status |-> "insufficient", balance |-> balance]]
                   /\ pc' = [pc EXCEPT ![s] = o.back]
                   /\ op' = [op EXCEPT ![s] = [o EXCEPT !.call = "none"]]
                   /\ nFail' = nFail + 1
                   /\ UNCHANGED <<dirty, pend>>
              ELSE /\ obj' = [obj EXCEPT ![s] = <<d>>]
                   /\ dirty' = [dirty EXCEPT ![s] = @ \cup Changed(c, d)]
                   /\ pend' = [pend EXCEPT ![s] =
                                  Append(@, TxnRow(UsageAmount(o.cost), "usage", "",
                                                   d.balance))]
                   /\ ret' = [ret EXCEPT ![s] = NoRet]
                   /\ pc' = [pc EXCEPT ![s] = "commit"]
                   /\ op' = [op EXCEPT ![s] =
                                [o EXCEPT !.call = "deduct", !.debit = o.cost,
                                          !.credit = 0]]
                   /\ UNCHANGED nFail
    /\ UNCHANGED <<cso, cspend>>

\* deduct_credits with cost == 0: return True, self.get_balance(db, user_id)
ZeroCostDeduct(s, o) ==
    /\ GetOrCreateEffect(s)
    /\ ret' = [ret EXCEPT ![s] = [status |-> "ok", balance |-> QueryFirst(s).balance]]
    /\ pc' = [pc EXCEPT ![s] = o.back]
    /\ op' = [op EXCEPT ![s] = [o EXCEPT !.call = "none"]]
    /\ UNCHANGED <<lock, cso, dirty, pend, cspend, nFail>>

\* cost = CREDIT_COSTS.get(action, 0) * count, with count = 1 at every caller
DeductCredits(s, o) ==
    IF o.cost = 0 THEN ZeroCostDeduct(s, o) ELSE EnterDeduct(s, o)

\* add_credits up to the commit: SELECT ... FOR UPDATE, the increments and
\* the purchase transaction.
EnterAdd(s, o) ==
    /\ LockFree(s)
    /\ InsertFree(s)
    /\ LET c == QueryFirst(s)
           d == Credit(c, o.amount)
       IN  /\ lock' = LockAfterSelect(s)
           /\ newrow' = [newrow EXCEPT ![s] = @ \/ NeedsInsert(s)]
           /\ obj' = [obj EXCEPT ![s] = <<d>>]
           /\ dirty' = [dirty EXCEPT ![s] = @ \cup Changed(c, d)]
           /\ pend' = [pend EXCEPT ![s] =
                          Append(@, TxnRow(o.amount, "purchase", o.sid, d.balance))]
           /\ ret' = [ret EXCEPT ![s] = NoRet]
           /\ pc' = [pc EXCEPT ![s] = "commit"]
           /\ op' = [op EXCEPT ![s] =
                        [o EXCEPT !.call = "add", !.credit = o.amount, !.debit = 0]]
    /\ UNCHANGED <<cso, cspend, nFail>>

\* check_duplicate_session: a committed transaction carries the session id
CheckDuplicateSession(sid) == \E i \in 1..Len(txns) : txns[i].sid = sid

(***************************************************************************)
(* db.commit(), db.close() and failures.                                   *)
(***************************************************************************)
\* The user_credits row after the flush of a commit: the INSERT of a new row,
\* or an UPDATE of the modified columns to the session's values.
Flush(r, o, d, isNew) ==
    IF isNew
    THEN [exists |-> TRUE, balance |-> o[1].balance,
          total_purchased |-> o[1].total_purchased, total_used |-> o[1].total_used]
    ELSE [exists |-> r.exists,
          balance |-> IF "balance" \in d THEN o[1].balance ELSE r.balance,
          total_purchased |-> IF "total_purchased" \in d THEN o[1].total_purchased
                              ELSE r.total_purchased,
          total_used |-> IF "total_used" \in d THEN o[1].total_used ELSE r.total_used]

CommitRowsLossy(t, p) == t

\* The pending credit_transactions rows are inserted by the same commit.
CommitRows(t, p) == t \o p

\* The flush of an UPDATE waits for the row lock of another transaction.
UpdateFree(s) == (dirty[s] # {} /\ ~newrow[s]) => LockFree(s)

\* The INSERT of a credit_states row fails on the unique user_id.
StateConflict(s) == cspend[s] # <<>> /\ cspend[s][1].insert /\ cstate.exists

Rollback(s) ==
    /\ lock' = IF lock = s THEN Free ELSE lock
    /\ obj' = [obj EXCEPT ![s] = <<>>]
    /\ cso' = [cso EXCEPT ![s] = <<>>]
    /\ dirty' = [dirty EXCEPT ![s] = {}]
    /\ pend' = [pend EXCEPT ![s] = <<>>]
    /\ cspend' = [cspend EXCEPT ![s] = <<>>]
    /\ newrow' = [newrow EXCEPT ![s] = FALSE]

\* db.commit() of a ledger call: one transaction writes the row, the cursor
\* and the transaction rows and releases the lock; the objects stay loaded.
Commit(s) ==
    /\ pc[s] = "commit"
    /\ UpdateFree(s)
    /\ IF StateConflict(s)
       THEN /\ Rollback(s)
            /\ pc' = [pc EXCEPT ![s] = "idle"]
            /\ op' = [op EXCEPT ![s] = NoOp]
            /\ ret' = [ret EXCEPT ![s] = [status |-> "error", balance |-> 0]]
            /\ UNCHANGED <<ledger, ghost>>
       ELSE /\ row' = Flush(row, obj[s], dirty[s], newrow[s])
            /\ cstate' = IF cspend[s] # <<>>
                         THEN [exists |-> TRUE, cursor |-> cspend[s][1].cursor]
                         ELSE cstate
            /\ txns' = CommitRows(txns, pend[s])
            /\ lock' = IF lock = s THEN Free ELSE lock
            /\ dirty' = [dirty EXCEPT ![s] = {}]
            /\ pend' = [pend EXCEPT ![s] = <<>>]
            /\ cspend' = [cspend EXCEPT ![s] = <<>>]
            /\ newrow' = [newrow EXCEPT ![s] = FALSE]
            /\ pc' = [pc EXCEPT ![s] = op[s].back]
            /\ op' = [op EXCEPT ![s] = [@ EXCEPT !.call = "none"]]
            /\ ret' = [ret EXCEPT ![s] =
                          [status |-> "ok", balance |-> obj[s][1].balance]]
            /\ nOk' = IF op[s].call = "deduct" THEN nOk + 1 ELSE nOk
            /\ credited' = credited + op[s].credit
            /\ debited' = debited + op[s].debit
            /\ UNCHANGED <<payments, obj, cso, nops, nFail>>
    /\ UNCHANGED <<conf, calc, maps, cachest, work>>

\* db.close() at the end of a request or of a worker: the open transaction is
\* rolled back and the identity map emptied.
Close(s) ==
    /\ pc[s] = "idle"
    /\ lock = s \/ obj[s] # <<>> \/ cso[s] # <<>> \/ newrow[s]
    /\ Rollback(s)
    /\ UNCHANGED <<ledger, pc, op, ret, ghost, conf, calc, maps, cachest, work>>

\* The handler dies inside a ledger call (the process is killed, the
\* connection drops, the commit raises): its transaction is rolled back.
Crash(s) ==
    /\ pc[s] = "commit"
    /\ Rollback(s)
    /\ pc' = [pc EXCEPT ![s] = "idle"]
    /\ op' = [op EXCEPT ![s] = NoOp]
    /\ ret' = [ret EXCEPT ![s] = [status |-> "error", balance |-> 0]]
    /\ UNCHANGED <<ledger, ghost, conf, calc, maps, cachest, work>>

\* The runtime releases a loaded, clean object no variable refers to any more.
Forget(s) ==
    /\ pc[s] = "idle"
    /\ obj[s] # <<>>
    /\ dirty[s] = {} /\ ~newrow[s]
    /\ obj' = [obj EXCEPT ![s] = <<>>]
    /\ UNCHANGED <<ledger, lock, pc, op, cso, dirty, pend, cspend, newrow, ret,
                   ghost, conf, calc, maps, cachest, work>>

\* get_balance / get_user_credits / has_sufficient_credits: an unlocked load.
GetOrCreate(s) ==
    /\ pc[s] = "idle"
    /\ obj[s] = <<>>
    /\ GetOrCreateEffect(s)
    /\ UNCHANGED <<ledger, lock, pc, op, cso, dirty, pend, cspend, ret, ghost, conf, calc, maps, cachest, work>>

\* A worker or a request calls deduct_credits(db, user_id, action).
Deduct(s, a) ==
    /\ pc[s] = "idle"
    /\ nops < MaxOps
    /\ nops' = nops + 1
    /\ DeductCredits(s, [NoOp EXCEPT !.kind = "deduct", !.cost = CREDIT_COSTS[a] * 1])
    /\ UNCHANGED <<ledger, nOk, credited, debited, conf, calc, maps, cachest, work>>

(***************************************************************************)
(* Admin endpoints (app/routers/admin.py).                                 *)
(***************************************************************************)
\* amount: int = Form(...) and balance: int = Form(...): any integer parses.
AdminAmounts == {0 - 1, 0, 2}
SetTargets == {0 - 1, 0, 3}

\* admin_add_credits: credit_manager.add_credits(db, user_id, amount, ...)
AdminAdd(s, amount) ==
    /\ pc[s] = "idle"
    /\ nops < MaxOps
    /\ nops' = nops + 1
    /\ EnterAdd(s, [NoOp EXCEPT !.kind = "admin_add", !.amount = amount])
    /\ UNCHANGED <<ledger, nOk, credited, debited, conf, calc, maps, cachest, work>>

\* credits.balance = balance; total_purchased grows by a positive diff only
SetBalance(c, target) ==
    [c EXCEPT !.balance = target,
              !.total_purchased =
                  IF target - c.balance > 0 THEN @ + (target - c.balance) ELSE @]

\* admin_set_credits up to the commit: a plain query (no FOR UPDATE), the
\* assignment and the admin_set transaction of amount diff.
AdminSet(s, target) ==
    /\ pc[s] = "idle"
    /\ nops < MaxOps
    /\ nops' = nops + 1
    /\ InsertFree(s)
    /\ LET c == QueryFirst(s)
           diff == target - c.balance
           d == SetBalance(c, target)
       IN  /\ newrow' = [newrow EXCEPT ![s] = @ \/ NeedsInsert(s)]
           /\ obj' = [obj EXCEPT ![s] = <<d>>]
           /\ dirty' = [dirty EXCEPT ![s] = @ \cup Changed(c, d)]
           /\ pend' = [pend EXCEPT ![s] =
                          Append(@, TxnRow(diff, "admin_set", "", target))]
           /\ op' = [op EXCEPT ![s] =
                        [NoOp EXCEPT !.kind = "admin_set", !.call = "set",
                                     !.amount = target, !.credit = diff]]
    /\ ret' = [ret EXCEPT ![s] = NoRet]
    /\ pc' = [pc EXCEPT ![s] = "commit"]
    /\ UNCHANGED <<ledger, lock, cso, cspend, nOk, nFail, credited, debited, conf, calc, maps, cachest, work>>

(***************************************************************************)
(* Weekly issuance of subscription credits (app/services/credit_drip.py).  *)
(***************************************************************************)
PLAN_CONFIG ==
    [starter_monthly |-> 250, professional_monthly |-> 1000,
     enterprise_monthly |-> 5000]

\* get_plan_config(package_id) is None for an unknown package
HasPlan(package_id) == package_id \in DOMAIN PLAN_CONFIG

calculate_weekly_credits_floor(monthly_credits) ==
    [i \in 0..3 |-> monthly_credits \div 4]

calculate_weekly_credits(monthly_credits) ==
    [i \in 0..3 |->
        (monthly_credits \div 4) + (IF i < monthly_credits % 4 THEN 1 ELSE 0)]

\* Times are whole days; (current_time - period_start).days
get_current_week(period_start, current_time) ==
    LET days_elapsed == current_time - period_start
    IN  IF days_elapsed >= 21 THEN 3
        ELSE IF days_elapsed >= 14 THEN 2
        ELSE IF days_elapsed >= 7 THEN 1
        ELSE 0

SumBatchesLatest(b, from, to) == b[to - 1]

RECURSIVE SumBatches(_, _, _)
\* sum(weekly_batches[from:to])
SumBatches(b, from, to) ==
    IF from >= to THEN 0 ELSE b[from] + SumBatches(b, from + 1, to)

calculate_credits_due_again(monthly_credits, period_start, current_time, weeks_issued) ==
    LET w == get_current_week(period_start, current_time)
    IN  <<calculate_weekly_credits(monthly_credits)[w],
          IF weeks_issued > w + 1 THEN weeks_issued ELSE w + 1>>

\* calculate_credits_due: <<credits_to_issue, new_weeks_issued>>
calculate_credits_due(monthly_credits, period_start, current_time, weeks_issued) ==
    IF weeks_issued >= 4 THEN <<0, 4>>
    ELSE LET weeks_to_issue_through ==
                 get_current_week(period_start, current_time) + 1
         IN  IF weeks_to_issue_through <= weeks_issued THEN <<0, weeks_issued>>
             ELSE <<SumBatches(calculate_weekly_credits(monthly_credits),
                               weeks_issued, weeks_to_issue_through),
                    weeks_to_issue_through>>

\* calculate_weekly_credits(monthly_credits) is evaluated.
EvalWeeklyCredits(monthly_credits) ==
    /\ calc = NoCalc
    /\ calc' = [fn |-> "calculate_weekly_credits",
                arg |-> <<monthly_credits>>,
                res |-> calculate_weekly_credits(monthly_credits)]
    /\ UNCHANGED <<ledger, sess, ghost, conf, work, maps, cachest>>

\* calculate_credits_due(monthly_credits, period_start, current_time,
\* weeks_issued) is evaluated for a period that starts on day 0.
EvalCreditsDue(monthly_credits, current_time, weeks_issued) ==
    /\ calc = NoCalc
    /\ calc' = [fn |-> "calculate_credits_due",
                arg |-> <<monthly_credits, current_time, weeks_issued>>,
                res |-> calculate_credits_due(monthly_credits, 0, current_time,
                                              weeks_issued)]
    /\ UNCHANGED <<ledger, sess, ghost, conf, work, maps, cachest>>

\* The subscriptions and clock readings the issuance is called with; a period
\* with no start or end has hasPeriod = FALSE.
Subscriptions ==
    {[status |-> st, package_id |-> pk, hasPeriod |-> hp,
      current_period_start |-> 0, current_period_end |-> 30] :
        st \in {"active", "canceling", "canceled", "past_due"},
        pk \in {"starter_monthly", "legacy"},
        hp \in BOOLEAN}
Clock == {0 - 1, 0, 8, 9, 22, 31}

\* The gates of issue_credits_for_user that return 0 before any write.
DripGate(sub, current_time) ==
    /\ sub.status \in {"active", "canceling"}
    /\ sub.hasPeriod
    /\ ~(current_time > sub.current_period_end)
    /\ HasPlan(sub.package_id)

\* issue_credits_for_user(db, user_id, subscription, credit_state,
\* user_credits, current_time): it works on the UserCredits and CreditState
\* objects its caller loaded in the session, takes no lock, and past the
\* gates writes the cursor and commits whether or not credits are due.
IssueCreditsForUser(s, sub, current_time) ==
    /\ pc[s] = "idle"
    /\ nops < MaxOps
    /\ obj[s] # <<>>
    /\ cso[s] # <<>>
    /\ nops' = nops + 1
    /\ IF ~DripGate(sub, current_time)
       THEN /\ ret' = [ret EXCEPT ![s] = [status |-> "ok", balance |-> 0]]
            /\ op' = [op EXCEPT ![s] = [NoOp EXCEPT !.kind = "drip", !.sub = sub,
                                                     !.time = current_time]]
            /\ UNCHANGED <<pc, obj, cso, dirty, pend, cspend>>
       ELSE LET c == obj[s][1]
                due == calculate_credits_due(PLAN_CONFIG[sub.package_id],
                                             sub.current_period_start,
                                             current_time, cso[s][1])
                d == IF due[1] > 0 THEN [c EXCEPT !.balance = @ + due[1]] ELSE c
            IN  /\ obj' = [obj EXCEPT ![s] = <<d>>]
                /\ dirty' = [dirty EXCEPT ![s] = @ \cup Changed(c, d)]
                /\ pend' = [pend EXCEPT ![s] =
                               IF due[1] > 0
                               THEN Append(@, TxnRow(due[1], "subscription_accrual",
                                                     "", d.balance))
                               ELSE @]
                /\ cso' = [cso EXCEPT ![s] = <<due[2]>>]
                /\ cspend' = [cspend EXCEPT ![s] =
                                 <<[cursor |-> due[2], insert |-> FALSE]>>]
                /\ op' = [op EXCEPT ![s] =
                             [NoOp EXCEPT !.kind = "drip", !.call = "drip",
                                          !.amount = due[1], !.credit = due[1],
                                          !.sub = sub, !.time = current_time]]
                /\ ret' = [ret EXCEPT ![s] = NoRet]
                /\ pc' = [pc EXCEPT ![s] = "commit"]
    /\ UNCHANGED <<ledger, lock, newrow, nOk, nFail, credited, debited, conf, calc, maps, cachest, work>>

\* issue_initial_credits up to the commit: a plain query of user_credits (no
\* FOR UPDATE), the first weekly batch, and the cursor set to 1.0 on the
\* CreditState row, created when the query finds none.
IssueInitialCredits(s, package_id) ==
    /\ pc[s] = "idle"
    /\ nops < MaxOps
    /\ nops' = nops + 1
    /\ IF ~HasPlan(package_id)
       THEN /\ ret' = [ret EXCEPT ![s] = [status |-> "ok", balance |-> 0]]
            /\ op' = [op EXCEPT ![s] = [NoOp EXCEPT !.kind = "initial"]]
            /\ UNCHANGED <<pc, obj, cso, dirty, pend, cspend, newrow>>
       ELSE /\ InsertFree(s)
            /\ LET c == QueryFirst(s)
                   initial_credits ==
                       calculate_weekly_credits(PLAN_CONFIG[package_id])[0]
                   d == [c EXCEPT !.balance = @ + initial_credits]
               IN  /\ newrow' = [newrow EXCEPT ![s] = @ \/ NeedsInsert(s)]
                   /\ obj' = [obj EXCEPT ![s] = <<d>>]
                   /\ dirty' = [dirty EXCEPT ![s] = @ \cup Changed(c, d)]
                   /\ pend' = [pend EXCEPT ![s] =
                                  Append(@, TxnRow(initial_credits,
                                                   "subscription_accrual", "",
                                                   d.balance))]
                   /\ op' = [op EXCEPT ![s] =
                                [NoOp EXCEPT !.kind = "initial", !.call = "initial",
                                             !.amount = initial_credits,
                                             !.credit = initial_credits]]
            /\ cspend' = [cspend EXCEPT ![s] =
                             <<[cursor |-> 1,
                                insert |-> cso[s] = <<>> /\ ~cstate.exists]>>]
            /\ cso' = [cso EXCEPT ![s] = <<1>>]
            /\ ret' = [ret EXCEPT ![s] = NoRet]
            /\ pc' = [pc EXCEPT ![s] = "commit"]
    /\ UNCHANGED <<ledger, lock, nOk, nFail, credited, debited, conf, calc, maps, cachest, work>>

\* get_or_create_credit_state: the CreditState row, created with cursor 0.0
\* and committed at once when there is none; that commit carries whatever the
\* session has flushed.
GetOrCreateCreditState(s) ==
    /\ pc[s] = "idle"
    /\ cso[s] = <<>>
    /\ IF cstate.exists
       THEN /\ cso' = [cso EXCEPT ![s] = <<cstate.cursor>>]
            /\ UNCHANGED <<ledger, lock, newrow>>
       ELSE /\ cso' = [cso EXCEPT ![s] = <<0>>]
            /\ cstate' = [exists |-> TRUE, cursor |-> 0]
            /\ row' = Flush(row, obj[s], dirty[s], newrow[s])
            /\ lock' = IF lock = s THEN Free ELSE lock
            /\ newrow' = [newrow EXCEPT ![s] = FALSE]
            /\ UNCHANGED <<txns, payments>>
    /\ UNCHANGED <<pc, op, obj, dirty, pend, cspend, ret, ghost, conf, calc, maps, cachest, work>>

(***************************************************************************)
(* Purchases: the Stripe webhook (app/routers/credits.py), the success     *)
(* page (app/routers/pages.py), verify_webhook_signature                   *)
(* (app/services/stripe_client.py).                                        *)
(***************************************************************************)
CheckoutSessions == {"cs_1", "cs_2"}

\* The deliveries the webhook endpoint can receive: parses says the body is
\* JSON of an event, signed that the stripe-signature header is valid for it.
\* credits is the metadata of the "starter" package, or missing (0).
Events ==
    {[type |-> ty, id |-> sid, credits |-> cr, signed |-> sg, parses |-> pa] :
        ty \in {"checkout.session.completed", "checkout.session.expired"},
        sid \in CheckoutSessions, cr \in {0, 100}, sg \in BOOLEAN,
        pa \in BOOLEAN}

\* verify_webhook_signature returns the event (TRUE) or raises (FALSE): with
\* no stripe_webhook_secret the payload is only parsed; with one,
\* stripe.Webhook.construct_event checks the signature.
verify_webhook_signature(ev, hasSecret) ==
    IF ~hasSecret THEN ev.parses ELSE ev.parses /\ ev.signed

\* stripe_webhook up to add_credits: verification, the event type, the
\* metadata and the duplicate check.
StripeWebhook(s, ev) ==
    /\ pc[s] = "idle"
    /\ nops < MaxOps
    /\ nops' = nops + 1
    /\ LET o == [NoOp EXCEPT !.kind = "webhook", !.sid = ev.id,
                             !.amount = ev.credits,
                             !.sig = secret /\ ev.signed,
                             !.back = "payment"]
       IN  IF ~verify_webhook_signature(ev, secret)
           THEN /\ ret' = [ret EXCEPT ![s] = [status |-> "error", balance |-> 0]]
                /\ op' = [op EXCEPT ![s] = [o EXCEPT !.back = "idle"]]
                /\ UNCHANGED pc
           ELSE IF \/ ev.type # "checkout.session.completed"
                   \/ ev.credits = 0
                   \/ CheckDuplicateSession(ev.id)
           THEN /\ ret' = [ret EXCEPT ![s] = [status |-> "ok", balance |-> 0]]
                /\ op' = [op EXCEPT ![s] = [o EXCEPT !.back = "idle"]]
                /\ UNCHANGED pc
           ELSE /\ ret' = [ret EXCEPT ![s] = NoRet]
                /\ op' = [op EXCEPT ![s] = o]
                /\ pc' = [pc EXCEPT ![s] = "add"]
    /\ UNCHANGED <<ledger, lock, obj, cso, dirty, pend, cspend, newrow, nOk, nFail,
                   credited, debited, conf, calc, maps, cachest, work>>

\* payment_success_page up to add_credits: the checkout session retrieved
\* from Stripe is paid, belongs to the logged-in user, carries credits and is
\* no duplicate.
PaymentSuccessPage(s, sid, paid, own) ==
    /\ pc[s] = "idle"
    /\ nops < MaxOps
    /\ nops' = nops + 1
    /\ LET o == [NoOp EXCEPT !.kind = "success", !.sid = sid, !.amount = 100,
                             !.back = "payment"]
       IN  IF paid /\ own /\ ~CheckDuplicateSession(sid)
           THEN /\ ret' = [ret EXCEPT ![s] = NoRet]
                /\ op' = [op EXCEPT ![s] = o]
                /\ pc' = [pc EXCEPT ![s] = "add"]
           ELSE /\ ret' = [ret EXCEPT ![s] = [status |-> "ok", balance |-> 0]]
                /\ op' = [op EXCEPT ![s] = [o EXCEPT !.back = "idle"]]
                /\ UNCHANGED pc
    /\ UNCHANGED <<ledger, lock, obj, cso, dirty, pend, cspend, newrow, nOk, nFail,
                   credited, debited, conf, calc, maps, cachest, work>>

\* credit_manager.add_credits(..., stripe_checkout_session_id=session_id)
PurchaseAdd(s) ==
    /\ pc[s] = "add"
    /\ EnterAdd(s, op[s])
    /\ UNCHANGED <<ledger, ghost, conf, calc, maps, cachest, work>>

\* db.add(payment); db.commit(): payments.stripe_session_id is unique, so a
\* second row for the session raises and is rolled back.
PaymentCommit(s) ==
    /\ pc[s] = "payment"
    /\ IF op[s].sid \in payments
       THEN /\ Rollback(s)
            /\ ret' = [ret EXCEPT ![s] = [status |-> "error", balance |-> 0]]
            /\ UNCHANGED payments
       ELSE /\ payments' = payments \cup {op[s].sid}
            /\ lock' = IF lock = s THEN Free ELSE lock
            /\ ret' = [ret EXCEPT ![s] = [status |-> "ok", balance |-> 0]]
            /\ UNCHANGED <<obj, cso, dirty, pend, cspend, newrow>>
    /\ pc' = [pc EXCEPT ![s] = "idle"]
    /\ op' = [op EXCEPT ![s] = [@ EXCEPT !.back = "idle"]]
    /\ UNCHANGED <<row, cstate, txns, ghost, conf, calc, maps, cachest, work>>

(***************************************************************************)
(* The handlers of the paid operations: score_lead and the batch worker    *)
(* (app/routers/scoring.py), the CSV import worker                         *)
(* (app/services/csv_import.py), send_sms_bulk (app/routers/sms.py),       *)
(* enrich_hunter (app/routers/enrichment.py), personalize_email            *)
(* (app/routers/email.py).                                                 *)
(*                                                                         *)
(* A lead of a handler's list is TRUE when the handler can use it: it      *)
(* exists and has the website, phone or domain the operation needs.        *)
(***************************************************************************)
MaxLeads == 2

LeadLists == UNION {[1..n -> BOOLEAN] : n \in 0..MaxLeads}

Usable(l) == l

\* has_sufficient_credits(db, user_id, action, count), after its unlocked load
has_sufficient_credits(s, action, count) ==
    QueryFirst(s).balance >= CREDIT_COSTS[action] * count

\* A handler starts: one more invocation, the ledger and the counters of
\* committed mutations untouched.
Invoke ==
    /\ nops < MaxOps
    /\ nops' = nops + 1
    /\ UNCHANGED <<ledger, nOk, credited, debited, conf, calc, maps, cachest>>

\* As Invoke, for a handler that registers a batch in a status map.
Starting ==
    /\ nops < MaxOps
    /\ nops' = nops + 1
    /\ UNCHANGED <<ledger, nOk, credited, debited, conf, calc, cachest, polled>>

\* str(uuid.uuid4())[:8]: an id no earlier batch of the process was given
NewId == nops + 1

\* _batch_status[batch_id] = {...} / _send_status[send_id] = {...}: the entry
\* is added; no entry is ever removed from either map.
Register(status_map, id) == Append(status_map, id)

\* A handler goes on: as Invoke, without counting an invocation.
Resume == UNCHANGED <<ledger, nops, nOk, credited, debited, conf, calc, maps, cachest>>

FinallyNotCompleted(b) == b

\* status["status"] = "completed" in the finally clause of the batch worker
FinallyCompleted(b) == [b EXCEPT !.status = "completed"]

\* db.close() at the end of a worker or a request
Finish(s) ==
    /\ Rollback(s)
    /\ pc' = [pc EXCEPT ![s] = "idle"]
    /\ job' = [job EXCEPT ![s] = NoJob]
    /\ UNCHANGED <<op, ret, nFail>>

\* The loop moves to its next lead without touching the session.
NextLead(s) ==
    /\ job' = [job EXCEPT ![s].leads = Tail(@)]
    /\ UNCHANGED <<sess, nFail>>

\* batch_score: the status entry is created and the worker thread started.
BatchScore(s, leads) ==
    /\ pc[s] = "idle"
    /\ Starting
    /\ op' = [op EXCEPT ![s] = [NoOp EXCEPT !.kind = "batch"]]
    /\ IF leads = <<>>
       THEN UNCHANGED <<pc, job, batch, batch_status>>
       ELSE /\ pc' = [pc EXCEPT ![s] = "batch_loop"]
            /\ job' = [job EXCEPT ![s] = [handler |-> "batch", leads |-> leads]]
            /\ batch' = [NoBatch EXCEPT !.status = "in_progress",
                                        !.total = Len(leads)]
            /\ batch_status' = Register(batch_status, NewId)
    /\ UNCHANGED <<lock, obj, cso, dirty, pend, cspend, newrow, ret, nFail, nPaid,
                   send_status>>

\* _batch_score_worker, one turn of the loop up to the return of
\* deduct_credits; with no lead left the finally clause runs.
BatchLoop(s) ==
    /\ pc[s] = "batch_loop"
    /\ Resume
    /\ UNCHANGED nPaid
    /\ IF job[s].leads = <<>>
       THEN /\ Finish(s)
            /\ batch' = FinallyCompleted(batch)
       ELSE IF ~Usable(Head(job[s].leads))
       THEN /\ NextLead(s)
            /\ batch' = [batch EXCEPT !.skipped = @ + 1]
       ELSE /\ DeductCredits(s, [NoOp EXCEPT !.kind = "batch",
                                              !.cost = CREDIT_COSTS.ai_scoring * 1,
                                              !.back = "batch_debited"])
            /\ UNCHANGED <<job, batch>>

InsufficientCreditsHaltLax(b) == b

\* status["error"] = f"Insufficient credits ({balance} available)"
InsufficientCreditsHalt(b) == [b EXCEPT !.error = TRUE]

LeadOutcomeUncounted(b, raised) ==
    IF raised THEN b ELSE [b EXCEPT !.scored = @ + 1]

\* The inner try of _batch_score_worker: status["scored"] += 1 after the
\* lead's commit, status["failed"] += 1 when anything in it raised.
LeadOutcome(b, raised) ==
    IF raised THEN [b EXCEPT !.failed = @ + 1] ELSE [b EXCEPT !.scored = @ + 1]

\* _batch_score_worker after deduct_credits returned: on ok=False
\* status["failed"] += 1 and status["status"] = "completed", the error not
\* yet written; otherwise score_website_hybrid and its two outcomes.
BatchDebited(s) ==
    /\ pc[s] = "batch_debited"
    /\ Resume
    /\ IF ret[s].status = "insufficient"
       THEN /\ batch' = [batch EXCEPT !.failed = @ + 1, !.status = "completed"]
            /\ pc' = [pc EXCEPT ![s] = "batch_halted"]
            /\ UNCHANGED <<lock, op, obj, cso, dirty, pend, cspend, newrow, ret,
                           nFail, job, nPaid>>
       ELSE /\ nPaid' = nPaid + 1
            /\ \E raised \in BOOLEAN : batch' = LeadOutcome(batch, raised)
            /\ job' = [job EXCEPT ![s].leads = Tail(@)]
            /\ pc' = [pc EXCEPT ![s] = "batch_loop"]
            /\ UNCHANGED <<lock, op, obj, cso, dirty, pend, cspend, newrow, ret, nFail>>

\* _batch_score_worker, the rest of the early return on ok=False: the error
\* is written, then the finally clause runs.
BatchHalted(s) ==
    /\ pc[s] = "batch_halted"
    /\ Resume
    /\ Finish(s)
    /\ batch' = FinallyCompleted(InsufficientCreditsHalt(batch))
    /\ UNCHANGED nPaid

\* batch_score_status: the request reads the entry of the batch as it is.
Poll ==
    /\ batch_status # <<>>
    /\ polled' = [id |-> batch_status[Len(batch_status)], seen |-> batch]
    /\ UNCHANGED <<ledger, sess, ghost, conf, work, calc, batch_status,
                   send_status, cachest>>

\* _batch_score_worker when deduct_credits raises (its commit fails): the call
\* stands outside the worker's try/except, so the exception leaves the loop
\* and only the finally clause runs.
BatchDebitRaises(s) ==
    /\ pc[s] = "commit"
    /\ op[s].kind = "batch"
    /\ Resume
    /\ Rollback(s)
    /\ pc' = [pc EXCEPT ![s] = "idle"]
    /\ job' = [job EXCEPT ![s] = NoJob]
    /\ ret' = [ret EXCEPT ![s] = [status |-> "error", balance |-> 0]]
    /\ op' = [op EXCEPT ![s] = [@ EXCEPT !.call = "none"]]
    /\ batch' = FinallyCompleted(batch)
    /\ UNCHANGED <<nFail, nPaid>>

\* send_emails: the leads with an email, the credit check for all of them;
\* more than three leads with a report attached go to a background thread
\* under a new _send_status entry, the others are sent in the request.
SendEmails(s, count, use_report) ==
    /\ pc[s] = "idle"
    /\ Starting
    /\ op' = [op EXCEPT ![s] = [NoOp EXCEPT !.kind = "email"]]
    /\ UNCHANGED <<lock, cso, dirty, pend, cspend, ret, nFail, batch, nPaid,
                   batch_status>>
    /\ IF count = 0
       THEN UNCHANGED <<pc, job, obj, newrow, send_status>>
       ELSE /\ GetOrCreateEffect(s)
            /\ IF ~has_sufficient_credits(s, "email_send", count)
               THEN UNCHANGED <<pc, job, send_status>>
               ELSE IF count > 3 /\ use_report
               THEN /\ send_status' = Register(send_status, NewId)
                    /\ pc' = [pc EXCEPT ![s] = "send_loop"]
                    /\ job' = [job EXCEPT ![s] =
                                  [handler |-> "send",
                                   leads |-> [i \in 1..count |-> TRUE]]]
               ELSE /\ pc' = [pc EXCEPT ![s] = "email_loop"]
                    /\ job' = [job EXCEPT ![s] =
                                  [handler |-> "email",
                                   leads |-> [i \in 1..count |-> TRUE]]]
                    /\ UNCHANGED send_status

\* _batch_send_worker, one turn of the loop up to the return of
\* deduct_credits; with no lead left the finally clause runs.
BatchSendLoop(s) ==
    /\ pc[s] = "send_loop"
    /\ Resume
    /\ UNCHANGED <<batch, nPaid>>
    /\ IF job[s].leads = <<>>
       THEN Finish(s)
       ELSE /\ DeductCredits(s, [NoOp EXCEPT !.kind = "email",
                                              !.cost = CREDIT_COSTS.email_send * 1,
                                              !.back = "send_debited"])
            /\ UNCHANGED job

\* _batch_send_worker after deduct_credits returned: the early return on
\* ok=False, or the email is sent or fails and the loop goes on.
BatchSendDebited(s) ==
    /\ pc[s] = "send_debited"
    /\ Resume
    /\ UNCHANGED <<batch, nPaid>>
    /\ IF ret[s].status = "insufficient"
       THEN Finish(s)
       ELSE /\ job' = [job EXCEPT ![s].leads = Tail(@)]
            /\ pc' = [pc EXCEPT ![s] = "send_loop"]
            /\ UNCHANGED <<lock, op, obj, cso, dirty, pend, cspend, newrow, ret,
                           nFail>>

\* send_emails, one turn of the synchronous loop: the email is sent, then
\* deduct_credits is called; a send that raises goes to the next lead.
EmailSend(s) ==
    /\ pc[s] = "email_loop"
    /\ Resume
    /\ UNCHANGED <<batch, nPaid>>
    /\ IF job[s].leads = <<>>
       THEN /\ pc' = [pc EXCEPT ![s] = "idle"]
            /\ job' = [job EXCEPT ![s] = NoJob]
            /\ UNCHANGED <<lock, op, obj, cso, dirty, pend, cspend, newrow, ret,
                           nFail>>
       ELSE \E sent \in BOOLEAN :
               IF sent
               THEN /\ DeductCredits(s, [NoOp EXCEPT !.kind = "email",
                                                     !.cost = CREDIT_COSTS.email_send * 1,
                                                     !.back = "email_debited"])
                    /\ UNCHANGED job
               ELSE NextLead(s)

\* send_emails after deduct_credits returned: the result is not looked at.
EmailDebited(s) ==
    /\ pc[s] = "email_debited"
    /\ Resume
    /\ job' = [job EXCEPT ![s].leads = Tail(@)]
    /\ pc' = [pc EXCEPT ![s] = "email_loop"]
    /\ UNCHANGED <<lock, op, obj, cso, dirty, pend, cspend, newrow, ret, nFail,
                   batch, nPaid>>

\* score_lead up to the return of deduct_credits
ScoreLead(s, lead) ==
    /\ pc[s] = "idle"
    /\ Invoke
    /\ UNCHANGED work
    /\ IF ~Usable(lead)
       THEN /\ op' = [op EXCEPT ![s] = [NoOp EXCEPT !.kind = "score_lead"]]
            /\ ret' = [ret EXCEPT ![s] = [status |-> "error", balance |-> 0]]
            /\ UNCHANGED <<lock, pc, obj, cso, dirty, pend, cspend, newrow, nFail>>
       ELSE DeductCredits(s, [NoOp EXCEPT !.kind = "score_lead",
                                          !.cost = CREDIT_COSTS.ai_scoring * 1,
                                          !.back = "score_debited"])

\* score_lead after deduct_credits returned
ScoreLeadDebited(s) ==
    /\ pc[s] = "score_debited"
    /\ Resume
    /\ nPaid' = IF ret[s].status = "insufficient" THEN nPaid ELSE nPaid + 1
    /\ pc' = [pc EXCEPT ![s] = "idle"]
    /\ UNCHANGED <<lock, op, obj, cso, dirty, pend, cspend, newrow, ret, nFail,
                   job, batch>>

\* score_import_leads_background: the scoring thread of a CSV import starts.
CsvImport(s, leads) ==
    /\ pc[s] = "idle"
    /\ Invoke
    /\ op' = [op EXCEPT ![s] = [NoOp EXCEPT !.kind = "csv"]]
    /\ pc' = [pc EXCEPT ![s] = "csv_loop"]
    /\ job' = [job EXCEPT ![s] = [handler |-> "csv", leads |-> leads]]
    /\ UNCHANGED <<lock, obj, cso, dirty, pend, cspend, newrow, ret, nFail, batch,
                   nPaid>>

\* score_single_lead of _run_scoring_thread
CsvScoreLead(s) ==
    /\ pc[s] = "csv_loop"
    /\ Resume
    /\ UNCHANGED batch
    /\ IF job[s].leads = <<>>
       THEN Finish(s) /\ UNCHANGED nPaid
       ELSE /\ NextLead(s)
            /\ nPaid' = IF Usable(Head(job[s].leads)) THEN nPaid + 1 ELSE nPaid

\* send_sms_bulk up to its loop: the leads with a phone, the credit check
\* for all of them, the Twilio keys.
SendSmsBulk(s, leads, twilio) ==
    /\ pc[s] = "idle"
    /\ Invoke
    /\ op' = [op EXCEPT ![s] = [NoOp EXCEPT !.kind = "sms"]]
    /\ UNCHANGED <<lock, cso, dirty, pend, cspend, ret, nFail, batch, nPaid>>
    /\ LET leads_with_phone == SelectSeq(leads, Usable)
       IN  IF leads_with_phone = <<>>
           THEN UNCHANGED <<pc, job, obj, newrow>>
           ELSE /\ GetOrCreateEffect(s)
                /\ IF has_sufficient_credits(s, "sms_send", Len(leads_with_phone))
                      /\ twilio
                   THEN /\ pc' = [pc EXCEPT ![s] = "sms_loop"]
                        /\ job' = [job EXCEPT ![s] =
                                      [handler |-> "sms", leads |-> leads_with_phone]]
                   ELSE UNCHANGED <<pc, job>>

\* send_sms_bulk, one turn of the loop: send_sms, then deduct_credits when the
\* message was sent.
SmsSend(s) ==
    /\ pc[s] = "sms_loop"
    /\ Resume
    /\ UNCHANGED batch
    /\ IF job[s].leads = <<>>
       THEN /\ pc' = [pc EXCEPT ![s] = "idle"]
            /\ job' = [job EXCEPT ![s] = NoJob]
            /\ UNCHANGED <<lock, op, obj, cso, dirty, pend, cspend, newrow, ret,
                           nFail, nPaid>>
       ELSE /\ nPaid' = nPaid + 1
            /\ \E success \in BOOLEAN :
                  IF success
                  THEN /\ DeductCredits(s, [NoOp EXCEPT !.kind = "sms",
                                                        !.cost = CREDIT_COSTS.sms_send * 1,
                                                        !.back = "sms_debited"])
                       /\ UNCHANGED job
                  ELSE NextLead(s)

\* send_sms_bulk after deduct_credits returned: the result is not looked at.
SmsDebited(s) ==
    /\ pc[s] = "sms_debited"
    /\ Resume
    /\ job' = [job EXCEPT ![s].leads = Tail(@)]
    /\ pc' = [pc EXCEPT ![s] = "sms_loop"]
    /\ UNCHANGED <<lock, op, obj, cso, dirty, pend, cspend, newrow, ret, nFail,
                   batch, nPaid>>

\* enrich_hunter up to its loop: the credit check for all the leads.
EnrichHunter(s, leads) ==
    /\ pc[s] = "idle"
    /\ Invoke
    /\ op' = [op EXCEPT ![s] = [NoOp EXCEPT !.kind = "hunter"]]
    /\ UNCHANGED <<lock, cso, dirty, pend, cspend, ret, nFail, batch, nPaid>>
    /\ IF leads = <<>>
       THEN UNCHANGED <<pc, job, obj, newrow>>
       ELSE /\ GetOrCreateEffect(s)
            /\ IF has_sufficient_credits(s, "sms_send", Len(leads))
               THEN /\ pc' = [pc EXCEPT ![s] = "hunter_loop"]
                    /\ job' = [job EXCEPT ![s] =
                                  [handler |-> "hunter", leads |-> leads]]
               ELSE UNCHANGED <<pc, job>>

\* enrich_hunter, one turn of the loop: enrich_from_hunter, then
\* deduct_credits.
HunterLoop(s) ==
    /\ pc[s] = "hunter_loop"
    /\ Resume
    /\ UNCHANGED batch
    /\ IF job[s].leads = <<>>
       THEN /\ pc' = [pc EXCEPT ![s] = "idle"]
            /\ job' = [job EXCEPT ![s] = NoJob]
            /\ UNCHANGED <<lock, op, obj, cso, dirty, pend, cspend, newrow, ret,
                           nFail, nPaid>>
       ELSE IF ~Usable(Head(job[s].leads))
       THEN NextLead(s) /\ UNCHANGED nPaid
       ELSE /\ nPaid' = nPaid + 1
            /\ DeductCredits(s, [NoOp EXCEPT !.kind = "hunter",
                                             !.cost = CREDIT_COSTS.sms_send * 1,
                                             !.back = "hunter_debited"])
            /\ UNCHANGED job

\* enrich_hunter after deduct_credits returned: the result is not looked at;
\* a lead that got an email is committed.
HunterDebited(s) ==
    /\ pc[s] = "hunter_debited"
    /\ Resume
    /\ job' = [job EXCEPT ![s].leads = Tail(@)]
    /\ pc' = [pc EXCEPT ![s] = "hunter_loop"]
    /\ \E found \in BOOLEAN :
          lock' = IF found /\ lock = s THEN Free ELSE lock
    /\ UNCHANGED <<op, obj, cso, dirty, pend, cspend, newrow, ret, nFail, batch,
                   nPaid>>

\* personalize_email: the credit check, generate_personalized_email, then
\* deduct_credits, whose result is not looked at.
PersonalizeEmail(s, lead, base_pitch) ==
    /\ pc[s] = "idle"
    /\ Invoke
    /\ UNCHANGED <<job, batch>>
    /\ LET o == [NoOp EXCEPT !.kind = "personalize",
                             !.cost = CREDIT_COSTS.email_personalization * 1]
       IN  IF ~Usable(lead)
           THEN /\ op' = [op EXCEPT ![s] = o]
                /\ UNCHANGED <<lock, pc, obj, cso, dirty, pend, cspend, newrow, ret,
                               nFail, nPaid>>
           ELSE IF ~has_sufficient_credits(s, "email_personalization", 1)
                   \/ ~base_pitch
           THEN /\ GetOrCreateEffect(s)
                /\ op' = [op EXCEPT ![s] = o]
                /\ UNCHANGED <<lock, pc, cso, dirty, pend, cspend, ret, nFail, nPaid>>
           ELSE /\ nPaid' = nPaid + 1
                /\ DeductCredits(s, o)

(***************************************************************************)
(* Runs of equal debits against one starting balance.                      *)
(***************************************************************************)
StartRow(b) ==
    [exists |-> TRUE, balance |-> b, total_purchased |-> b, total_used |-> 0]

SessInit ==
    /\ lock = Free
    /\ pc = [s \in Sessions |-> "idle"]
    /\ op = [s \in Sessions |-> NoOp]
    /\ obj = [s \in Sessions |-> <<>>]
    /\ cso = [s \in Sessions |-> <<>>]
    /\ dirty = [s \in Sessions |-> {}]
    /\ pend = [s \in Sessions |-> <<>>]
    /\ cspend = [s \in Sessions |-> <<>>]
    /\ newrow = [s \in Sessions |-> FALSE]
    /\ ret = [s \in Sessions |-> NoRet]
    /\ nops = 0 /\ nOk = 0 /\ nFail = 0 /\ credited = 0 /\ debited = 0
    /\ job = [s \in Sessions |-> NoJob]
    /\ batch = NoBatch
    /\ nPaid = 0
    /\ calc = NoCalc
    /\ batch_status = <<>> /\ send_status = <<>> /\ polled = NoPoll
    /\ score_cache = <<>> /\ hour = 0
    /\ saver = [s \in Sessions |-> NoSave]
    /\ got = NoGot /\ saved = NoSaved

DebitInit ==
    /\ startBal \in 0..MaxBalance
    /\ unitCost \in {CREDIT_COSTS[a] : a \in Actions} \ {0}
    /\ row = StartRow(startBal)
    /\ cstate = [exists |-> FALSE, cursor |-> 0]
    /\ txns = IF startBal = 0 THEN <<>>
              ELSE <<TxnRow(startBal, "purchase", "", startBal)>>
    /\ payments = {}
    /\ secret = TRUE
    /\ SessInit

DebitCall(s) ==
    \E a \in Actions :
        /\ CREDIT_COSTS[a] = unitCost
        /\ nops < MaxCalls
        /\ Deduct(s, a)

DebitNext ==
    \E s \in Sessions :
        \/ DebitCall(s)
        \/ Commit(s)
        \/ GetOrCreate(s)
        \/ Forget(s)
        \/ Close(s)

DebitSpec == DebitInit /\ [][DebitNext]_vars

AllIdle == \A s \in Sessions : pc[s] = "idle"

FreshInit ==
    /\ row \in {[exists |-> e, balance |-> 0, total_purchased |-> 0,
                  total_used |-> 0] : e \in BOOLEAN}
    /\ cstate = [exists |-> FALSE, cursor |-> 0]
    /\ txns = <<>>
    /\ payments = {}
    /\ startBal = 0
    /\ unitCost = 0
    /\ SessInit

SeqInit == FreshInit /\ secret = TRUE

LedgerCallWith(s, subs, times) ==
    \/ \E a \in Actions : Deduct(s, a)
    \/ \E amount \in AdminAmounts : AdminAdd(s, amount)
    \/ \E target \in SetTargets : AdminSet(s, target)
    \/ \E sub \in subs, t \in times : IssueCreditsForUser(s, sub, t)
    \/ \E pk \in {"starter_monthly", "legacy"} : IssueInitialCredits(s, pk)
    \/ GetOrCreate(s)
    \/ GetOrCreateCreditState(s)
    \/ Commit(s)
    \/ Close(s)
    \/ Forget(s)

LedgerCall(s) == LedgerCallWith(s, Subscriptions, Clock)

SeqNext == LedgerCall("s1") \/ Crash("s1")

SeqSpec == SeqInit /\ [][SeqNext]_vars

(***************************************************************************)
(* The ledger used by concurrent sessions (request handlers and workers).  *)
(***************************************************************************)
Init == FreshInit /\ secret = TRUE

\* Concurrent sessions issue the drip for one subscription in its period, or
\* for one that was canceled.
Next ==
    \E s \in Sessions :
        LedgerCallWith(s,
                       {sub \in Subscriptions :
                           /\ sub.package_id = "starter_monthly" /\ sub.hasPeriod
                           /\ sub.status \in {"active", "canceled"}},
                       {0, 8})

Spec == Init /\ [][Next]_vars


(***************************************************************************)
(* Purchases delivered concurrently, under either webhook configuration.   *)
(***************************************************************************)
PayInit == FreshInit /\ secret \in BOOLEAN

PayNext ==
    \E s \in Sessions :
        \/ \E ev \in Events : StripeWebhook(s, ev)
        \/ \E sid \in CheckoutSessions, paid \in BOOLEAN, own \in BOOLEAN :
               PaymentSuccessPage(s, sid, paid, own)
        \/ PurchaseAdd(s)
        \/ Commit(s)
        \/ PaymentCommit(s)
        \/ Close(s)
        \/ Forget(s)

PaySpec == PayInit /\ [][PayNext]_vars

PurchasesOf(sid) ==
    {i \in 1..Len(txns) : txns[i].type = "purchase" /\ txns[i].sid = sid}

\* C2: for every checkout session id at most one purchase transaction with
\* that id exists, and the balance grows by the purchased amount at most once
\* per id.
C2_OneCreditPerSession ==
    /\ \A sid \in CheckoutSessions : Cardinality(PurchasesOf(sid)) <= 1
    /\ credited <= 100 * Cardinality({sid \in CheckoutSessions : PurchasesOf(sid) # {}})

\* C9: the webhook changes balance, transactions or payments only for an
\* event whose signature was verified, whatever the webhook secret is.
C9_VerifiedEventsOnly ==
    [][\A s \in Sessions :
          (op[s].kind = "webhook" /\ pc'[s] # pc[s] /\ ledger' # ledger)
              => op[s].sig]_vars

(***************************************************************************)
(* The handlers of the paid operations, run one after the other against a  *)
(* starting balance.                                                       *)
(***************************************************************************)
PaidInit ==
    /\ startBal \in 0..MaxBalance
    /\ unitCost = 0
    /\ row = StartRow(startBal)
    /\ cstate = [exists |-> FALSE, cursor |-> 0]
    /\ txns = IF startBal = 0 THEN <<>>
              ELSE <<TxnRow(startBal, "purchase", "", startBal)>>
    /\ payments = {}
    /\ secret = TRUE
    /\ SessInit

PaidCall(s) ==
    \/ \E leads \in LeadLists : BatchScore(s, leads)
    \/ BatchLoop(s)
    \/ BatchDebited(s)
    \/ BatchHalted(s)
    \/ \E lead \in BOOLEAN : ScoreLead(s, lead)
    \/ ScoreLeadDebited(s)
    \/ \E leads \in LeadLists : CsvImport(s, leads)
    \/ CsvScoreLead(s)
    \/ \E leads \in LeadLists, twilio \in BOOLEAN : SendSmsBulk(s, leads, twilio)
    \/ SmsSend(s)
    \/ SmsDebited(s)
    \/ \E leads \in LeadLists : EnrichHunter(s, leads)
    \/ HunterLoop(s)
    \/ HunterDebited(s)
    \/ \E lead \in BOOLEAN, base_pitch \in BOOLEAN :
          PersonalizeEmail(s, lead, base_pitch)
    \/ Commit(s)
    \/ Close(s)
    \/ Forget(s)

PaidNext == PaidCall("s1")

PaidSpec == PaidInit /\ [][PaidNext]_vars

\* C10: every paid operation is invoked only after a deduct_credits call for
\* it returned True, so the paid operations invoked never outnumber the
\* successful debits.
C10_DebitBeforePaidOperation == nPaid <= nOk

(***************************************************************************)
(* The batch scoring worker alone: batches started one after the other,    *)
(* no other ledger activity.                                               *)
(***************************************************************************)
BatchNext ==
    \/ \E leads \in LeadLists : BatchScore("s1", leads)
    \/ BatchLoop("s1")
    \/ BatchDebited("s1")
    \/ BatchHalted("s1")
    \/ BatchDebitRaises("s1")
    \/ Commit("s1")

BatchSpec == PaidInit /\ [][BatchNext]_vars

\* The first batch of the run has ended and nothing was raised in it: every
\* scoring call returned and every deduct_credits call returned.
FirstBatchRanClean ==
    /\ nops = 1
    /\ pc["s1"] = "idle"
    /\ batch.status = "completed"
    /\ batch.scored = nPaid
    /\ ret["s1"].status # "error"

C12_FailureIsolation ==
    (batch.status = "completed" /\ pc["s1"] = "idle" /\ ~batch.error)
        => batch.scored + batch.failed + batch.skipped = batch.total

\* The session starts an issue_credits_for_user call right after another one
\* for the same subscription, with a clock reading of the same week.
SecondDripOfWeek(s) ==
    /\ pc[s] = "idle"
    /\ op[s].kind = "drip"
    /\ nops' = nops + 1
    /\ op'[s].kind = "drip"
    /\ op'[s].sub = op[s].sub
    /\ op'[s].time >= op[s].time
    /\ get_current_week(op[s].sub.current_period_start, op'[s].time)
          = get_current_week(op[s].sub.current_period_start, op[s].time)

\* C13: drip idempotence. The second of two consecutive issue_credits_for_user
\* calls of one week returns 0, appends no transaction, leaves the balance as
\* it was and writes the cursor value that is already there.
C13_DripIdempotence ==
    [][\A s \in Sessions :
          SecondDripOfWeek(s)
              => /\ op'[s].amount = 0
                 /\ pend'[s] = <<>>
                 /\ obj'[s] = obj[s]
                 /\ cso'[s] = cso[s]
                 /\ cspend'[s] # <<>> => cspend'[s][1].cursor = cstate.cursor]_vars

C13_Witness ==
    /\ pc["s1"] = "idle" /\ nops = 2
    /\ op["s1"].kind = "drip" /\ op["s1"].time = 9 /\ op["s1"].amount = 0
    /\ DripGate(op["s1"].sub, 9)
    /\ cstate.exists /\ cstate.cursor = 2
    /\ Len(txns) = 1 /\ txns[1].amount = 126 /\ CommittedBalance = 126

\* A session starts an issue_credits_for_user call.
DripCall(s) ==
    /\ pc[s] = "idle"
    /\ nops' = nops + 1
    /\ op'[s].kind = "drip"

\* The eligibility the drip is specified with: the subscription is active or
\* canceling, now lies within the period, the package is a known plan.
EligibleForDrip(sub, now) ==
    /\ sub.status \in {"active", "canceling"}
    /\ sub.hasPeriod
    /\ sub.current_period_start <= now
    /\ now <= sub.current_period_end
    /\ sub.package_id \in DOMAIN PLAN_CONFIG

\* C14: drip eligibility gates. A call whose subscription is neither active
\* nor canceling, whose clock reading lies before the period start or after
\* the period end, or whose package is unknown returns 0 and leaves balance,
\* transaction log and cursor as they were.
C14_DripGates ==
    [][\A s \in Sessions :
          (DripCall(s) /\ ~EligibleForDrip(op'[s].sub, op'[s].time))
              => /\ op'[s].amount = 0
                 /\ pc'[s] = "idle"
                 /\ obj'[s] = obj[s] /\ cso'[s] = cso[s]
                 /\ pend'[s] = pend[s] /\ cspend'[s] = cspend[s]]_vars

\* Batch i of a monthly allowance m, and the batches c through w summed.
WeeklyBatch(m, i) == (m \div 4) + (IF i < m % 4 THEN 1 ELSE 0)
BatchesDue(m, c, w) ==
    (IF c <= 0 /\ 0 <= w THEN WeeklyBatch(m, 0) ELSE 0)
    + (IF c <= 1 /\ 1 <= w THEN WeeklyBatch(m, 1) ELSE 0)
    + (IF c <= 2 /\ 2 <= w THEN WeeklyBatch(m, 2) ELSE 0)
    + (IF c <= 3 /\ 3 <= w THEN WeeklyBatch(m, 3) ELSE 0)

\* floor(days_elapsed / 7) clamped to [0, 3]
ClampedWeek(days_elapsed) ==
    LET f == days_elapsed \div 7
    IN  IF f < 0 THEN 0 ELSE IF f > 3 THEN 3 ELSE f

(***************************************************************************)
(* The drip arithmetic, evaluated over ranges of allowances, days and       *)
(* cursors.                                                                *)
(***************************************************************************)
MaxMonthly == 251
MaxDay == 30

DripMathNext ==
    \/ \E m \in 0..MaxMonthly : EvalWeeklyCredits(m)
    \/ \E m \in {0, 1, 2, 3, 250, 1000, 5000}, t \in (0 - 8)..MaxDay, c \in 0..4 :
           EvalCreditsDue(m, t, c)

DripMathSpec == SeqInit /\ [][DripMathNext]_vars

\* C15: drip amount due. For a clock reading within the period, cursor c in
\* 0..4 and current week w = floor(days_elapsed / 7) clamped to [0, 3],
\* nothing is issued when c >= w + 1; otherwise the credits issued are the
\* weekly batches c through w summed and the cursor becomes w + 1.
C15_DripAmountDue ==
    (calc.fn = "calculate_credits_due" /\ calc.arg[2] >= 0)
        => LET m == calc.arg[1]
               w == ClampedWeek(calc.arg[2])
               c == calc.arg[3]
           IN  IF c >= w + 1
               THEN calc.res[1] = 0
               ELSE calc.res = <<BatchesDue(m, c, w), w + 1>>

C15_Witness ==
    /\ calc.fn = "calculate_credits_due"
    /\ calc.arg = <<250, 22, 1>>
    /\ calc.res = <<187, 4>>

\* C16: weekly split. For every non-negative monthly allowance m,
\* calculate_weekly_credits(m) returns four batches, batch i being
\* m div 4 + 1 for i < m mod 4 and m div 4 otherwise; they sum to m, and an
\* allowance of 250 splits as 63, 63, 62, 62.
C16_WeeklySplit ==
    calc.fn = "calculate_weekly_credits"
        => LET m == calc.arg[1]
               b == calc.res
           IN  /\ DOMAIN b = 0..3
               /\ \A i \in 0..3 :
                      b[i] = IF i < m % 4 THEN (m \div 4) + 1 ELSE m \div 4
               /\ b[0] + b[1] + b[2] + b[3] = m
               /\ m = 250 => <<b[0], b[1], b[2], b[3]>> = <<63, 63, 62, 62>>

C16_Witness ==
    /\ calc.fn = "calculate_weekly_credits"
    /\ calc.arg = <<250>>
    /\ calc.res[0] = 63 /\ calc.res[3] = 62

(***************************************************************************)
(* URL normalisation (app/services/scorer.py). A string is the sequence of *)
(* its pieces: "http:", "https:", "HTTP:", "/", "www.", "WWW.", a host     *)
(* name, a path segment, a query, a fragment.                              *)
(***************************************************************************)
MaxWww == 2          \* "www." prefixes in front of a host name
MaxPath == 3         \* pieces of a path

\* str.lower() of one piece
Lower(piece) ==
    CASE piece = "HTTP:" -> "http:"
      [] piece = "WWW." -> "www."
      [] piece = "EXAMPLE.COM" -> "example.com"
      [] OTHER -> piece

\* The longest prefix of a string that holds none of the stop pieces
Before(str, stops) ==
    LET n == CHOOSE k \in 0..Len(str) :
                 /\ \A i \in 1..k : str[i] \notin stops
                 /\ k = Len(str) \/ str[k + 1] \in stops
    IN  SubSeq(str, 1, n)

\* urlparse(url) of a url that starts with "http://" or "https://": the
\* netloc ends at the first "/", "?" or "#", the path at the first "?" or "#".
urlparse(url) ==
    LET rest == SubSeq(url, 4, Len(url))
        netloc == Before(rest, {"/", "?q=1", "#top"})
        after == SubSeq(rest, Len(netloc) + 1, Len(rest))
    IN  [scheme |-> url[1], netloc |-> netloc,
         path |-> Before(after, {"?q=1", "#top"})]

RECURSIVE rstrip(_)
\* path.rstrip("/")
rstrip(path) ==
    IF path # <<>> /\ path[Len(path)] = "/"
    THEN rstrip(SubSeq(path, 1, Len(path) - 1))
    ELSE path

\* normalize_url(url)
normalize_url(url) ==
    IF url = <<>> THEN <<>>
    ELSE LET prefixed == IF /\ Len(url) >= 3
                            /\ url[1] \in {"http:", "https:"}
                            /\ url[2] = "/" /\ url[3] = "/"
                         THEN url
                         ELSE <<"https:", "/", "/">> \o url
             parsed == urlparse(prefixed)
             lowered == [i \in 1..Len(parsed.netloc) |-> Lower(parsed.netloc[i])]
             netloc == IF lowered # <<>> /\ lowered[1] = "www."
                       THEN Tail(lowered) ELSE lowered
             path == IF rstrip(parsed.path) = <<>> THEN <<"/">>
                     ELSE rstrip(parsed.path)
         IN  <<parsed.scheme, "/", "/">> \o netloc \o path

\* url_to_hash(url): the SHA-256 digest, one per string
url_to_hash(url) == <<"sha256", url>>

\* The URLs a lead's website may hold: an optional scheme, "www." prefixes, a
\* host name, an optional path, an optional query or fragment; or nothing.
Urls ==
    LET Schemes == {<<>>, <<"http:", "/", "/">>, <<"https:", "/", "/">>,
                    <<"HTTP:", "/", "/">>}
        WwwRuns == UNION {[1..n -> {"www.", "WWW."}] : n \in 0..MaxWww}
        Hosts == {<<"example.com">>, <<"EXAMPLE.COM">>}
        Paths == {<<>>} \cup
                 {<<"/">> \o q : q \in UNION {[1..n -> {"/", "a"}] :
                                                n \in 0..(MaxPath - 1)}}
        Extras == {<<>>, <<"?q=1">>, <<"#top">>}
    IN  {<<>>} \cup
        {sch \o w \o h \o pth \o e :
            sch \in Schemes, w \in WwwRuns, h \in Hosts, pth \in Paths,
            e \in Extras}

\* A URL is normalised, its normal form is normalised again, and the cache
\* key of each is computed as get_cached_score and save_score_to_cache do.
EvalNormalizeUrl(url) ==
    /\ calc = NoCalc
    /\ calc' = [fn |-> "normalize_url",
                arg |-> <<url>>,
                res |-> [once |-> normalize_url(url),
                         twice |-> normalize_url(normalize_url(url)),
                         key |-> url_to_hash(normalize_url(url)),
                         key_of_normalized |->
                             url_to_hash(normalize_url(normalize_url(url)))]]
    /\ UNCHANGED <<ledger, sess, ghost, conf, work, maps, cachest>>

UrlNext == \E url \in Urls : EvalNormalizeUrl(url)

UrlSpec == SeqInit /\ [][UrlNext]_vars

\* C18: normalisation is idempotent. For every URL u,
\* normalize_url(normalize_url(u)) = normalize_url(u), repeated "www."
\* prefixes, upper-case schemes and trailing slashes included, so the cache
\* key is the same whether u or its normal form is looked up.
C18_NormalizeIdempotent ==
    calc.fn = "normalize_url"
        => /\ calc.res.twice = calc.res.once
           /\ calc.res.key_of_normalized = calc.res.key

(***************************************************************************)
(* The score cache (app/services/scorer.py, ScoreCache of app/models.py).  *)
(* Each call runs in its own session; the callers have nothing else        *)
(* pending in it, so the commit of a save writes the cache row only. No    *)
(* reference to a ScoreCache object outlives the call that loaded it.      *)
(***************************************************************************)
MaxHour == 3         \* hours the clock runs

\* The score_data a save is called with; confidence in hundredths.
Scores ==
    {[heuristic |-> "hA", ai_review |-> "aA", final_score |-> 40, confidence |-> 60],
     [heuristic |-> "hB", ai_review |-> "aB", final_score |-> 70, confidence |-> 75]}

\* The URLs the cache is called with: two spellings of one site, and a page.
CacheUrls ==
    {<<"example.com">>, <<"https:", "/", "/", "WWW.", "EXAMPLE.COM", "/">>,
     <<"example.com", "/", "a">>}

MaxAges == {1, 2}

\* db.query(ScoreCache).filter(ScoreCache.url_hash == url_hash)
Entries(cache, url_hash) == SelectSeq(cache, LAMBDA r : r.url_hash = url_hash)

AssignedKeepingDate(entry, score_data, at) ==
    [entry EXCEPT !.heuristic_result = score_data.heuristic,
                  !.ai_result = score_data.ai_review,
                  !.final_score = score_data.final_score,
                  !.confidence = score_data.confidence]

\* The loaded entry after the five assignments of save_score_to_cache
Assigned(entry, score_data, at) ==
    [entry EXCEPT !.heuristic_result = score_data.heuristic,
                  !.ai_result = score_data.ai_review,
                  !.final_score = score_data.final_score,
                  !.confidence = score_data.confidence,
                  !.fetched_at = at]

\* The UPDATE a flush emits sets the columns whose value the assignments
\* changed against what the session had loaded, and leaves the others;
\* fetched_at, read from the clock to the microsecond, always changed.
FlushUpdate(r, loaded, assigned) ==
    [c \in DOMAIN r |->
        IF c = "fetched_at" \/ loaded[c] # assigned[c] THEN assigned[c] ELSE r[c]]

\* save_score_to_cache up to its commit: the key, the query, and the
\* assignments to the entry found or the new ScoreCache added.
SaveScoreToCache(s, url, score_data) ==
    /\ saver[s].pc = "idle"
    /\ LET normalized == normalize_url(url)
           url_hash == url_to_hash(normalized)
           found == Entries(score_cache, url_hash)
       IN  saver' = [saver EXCEPT ![s] =
                        [pc |-> "loaded", url_hash |-> url_hash,
                         normalized |-> normalized, score_data |-> score_data,
                         entry |-> IF found = <<>> THEN <<>> ELSE <<Head(found)>>]]
    /\ got' = NoGot
    /\ UNCHANGED <<ledger, sess, ghost, conf, work, calc, maps, score_cache, hour,
                   saved>>

\* db.commit() of save_score_to_cache: the UPDATE of the entry loaded, or the
\* INSERT of the new row, which the primary key url_hash refuses when a row
\* of that key is there; an exception is rolled back and logged.
CommitSave(s, fails) ==
    /\ saver[s].pc = "loaded"
    /\ LET v == saver[s]
           refused == v.entry = <<>> /\ Entries(score_cache, v.url_hash) # <<>>
       IN  IF fails \/ refused
           THEN UNCHANGED <<score_cache, saved>>
           ELSE /\ score_cache' =
                      IF v.entry = <<>>
                      THEN Append(score_cache,
                                  [url_hash |-> v.url_hash,
                                   normalized_url |-> v.normalized,
                                   heuristic_result |-> v.score_data.heuristic,
                                   ai_result |-> v.score_data.ai_review,
                                   final_score |-> v.score_data.final_score,
                                   confidence |-> v.score_data.confidence,
                                   fetched_at |-> hour])
                      ELSE [i \in 1..Len(score_cache) |->
                               IF score_cache[i].url_hash = v.url_hash
                               THEN FlushUpdate(score_cache[i], v.entry[1],
                                                Assigned(v.entry[1], v.score_data, hour))
                               ELSE score_cache[i]]
                /\ saved' = [url_hash |-> v.url_hash, score_data |-> v.score_data,
                             at |-> hour]
    /\ saver' = [saver EXCEPT ![s] = NoSave]
    /\ got' = NoGot
    /\ UNCHANGED <<ledger, sess, ghost, conf, work, calc, maps, hour>>

\* get_cached_score(db, url, max_age_hours)
GetCachedScore(url, max_age_hours) ==
    /\ LET url_hash == url_to_hash(normalize_url(url))
           found == Entries(score_cache, url_hash)
           cutoff == hour - max_age_hours
       IN  got' = [url_hash |-> url_hash, max_age_hours |-> max_age_hours,
                   at |-> hour,
                   res |-> IF found = <<>> THEN <<>>
                           ELSE IF Head(found).fetched_at < cutoff THEN <<>>
                           ELSE <<[final_score |-> Head(found).final_score,
                                   confidence |-> Head(found).confidence]>>]
    /\ UNCHANGED <<ledger, sess, ghost, conf, work, calc, maps, score_cache, hour,
                   saver, saved>>

\* An hour passes; no save takes an hour.
Tick ==
    /\ hour < MaxHour
    /\ \A s \in Sessions : saver[s].pc = "idle"
    /\ hour' = hour + 1
    /\ got' = NoGot
    /\ UNCHANGED <<ledger, sess, ghost, conf, work, calc, maps, score_cache, saver,
                   saved>>

SaveCall(s) ==
    \/ \E url \in CacheUrls, score_data \in Scores :
          SaveScoreToCache(s, url, score_data)
    \/ \E fails \in BOOLEAN : CommitSave(s, fails)

\* One session: saves and reads one after the other.
CacheSeqNext ==
    \/ SaveCall("s1")
    \/ \E url \in CacheUrls, max_age_hours \in MaxAges :
          GetCachedScore(url, max_age_hours)
    \/ Tick

CacheSeqSpec == SeqInit /\ [][CacheSeqNext]_vars

\* Two sessions: their saves interleave.
CacheNext == (\E s \in Sessions : SaveCall(s)) \/ Tick

CacheSpec == SeqInit /\ [][CacheNext]_vars

\* C19: cache round trip and soft expiry. After save_score_to_cache(U, r)
\* succeeded, get_cached_score(U, max_age_hours) returns r's final_score and
\* confidence when read less than max_age_hours after the write, and returns
\* None once more than max_age_hours have passed, the row still being stored.
C19_CacheRoundTrip ==
    (got.url_hash # <<>> /\ got.url_hash = saved.url_hash)
        => LET age == got.at - saved.at
           IN  /\ age < got.max_age_hours
                     => got.res = <<[final_score |-> saved.score_data.final_score,
                                     confidence |-> saved.score_data.confidence]>>
               /\ age > got.max_age_hours
                     => /\ got.res = <<>>
                        /\ Entries(score_cache, got.url_hash) # <<>>

C19_Witness ==
    /\ got.url_hash # <<>> /\ got.url_hash = saved.url_hash
    /\ saved.at = 1 /\ got.at = 2 /\ got.max_age_hours = 2
    /\ Len(score_cache) = 1
    /\ got.res = <<[final_score |-> 70, confidence |-> 75]>>

\* C20: upsert, one row per key. After any sequence or interleaving of
\* save_score_to_cache calls the cache holds at most one row per url_hash,
\* and the row of the key last saved holds that save's heuristic_result,
\* ai_result, final_score, confidence and fetched_at in full: the last
\* writer wins.
C20_UpsertLastWriterWins ==
    /\ \A i, j \in 1..Len(score_cache) :
          score_cache[i].url_hash = score_cache[j].url_hash => i = j
    /\ saved # NoSaved
          => \E i \in 1..Len(score_cache) :
                /\ score_cache[i].url_hash = saved.url_hash
                /\ score_cache[i].heuristic_result = saved.score_data.heuristic
                /\ score_cache[i].ai_result = saved.score_data.ai_review
                /\ score_cache[i].final_score = saved.score_data.final_score
                /\ score_cache[i].confidence = saved.score_data.confidence
                /\ score_cache[i].fetched_at = saved.at

(***************************************************************************)
(* The status maps of the background batches: scoring batches and email    *)
(* sends started one after the other.                                      *)
(***************************************************************************)
EmailCounts == {0, 1, 4}

StatusNext ==
    \/ BatchNext
    \/ \E count \in EmailCounts, use_report \in BOOLEAN :
          SendEmails("s1", count, use_report)
    \/ BatchSendLoop("s1")
    \/ BatchSendDebited("s1")
    \/ EmailSend("s1")
    \/ EmailDebited("s1")

StatusSpec == PaidInit /\ [][StatusNext]_vars

\* C17: the in-memory status maps _batch_status and _send_status never hold
\* more entries than the capacity: registering a batch at capacity evicts the
\* oldest entries first.
C17_StatusMapsBounded ==
    /\ Len(batch_status) <= StatusCapacity
    /\ Len(send_status) <= StatusCapacity

\* C4: credit conservation. In every committed state of a sequence of
\* ledger calls from a fresh row, the amounts of the transaction rows sum to
\* the balance, and the balance is the amounts credited minus the costs of the
\* successful debits.
C4_CreditConservation ==
    /\ SumAmount(txns) = CommittedBalance
    /\ CommittedBalance = credited - debited

C4_Witness ==
    /\ pc["s1"] = "idle"
    /\ nOk >= 1 /\ nFail >= 1 /\ credited > 0
    /\ Len(txns) >= 2

\* C5: after every committed mutation, balance == total_purchased - total_used.
C5_BalanceReconciled ==
    row.exists => row.balance = row.total_purchased - row.total_used

\* C6: the committed balance is never negative.
C6_BalanceNonNegative == CommittedBalance >= 0

\* C7: a deduct_credits call that finds the balance below the cost changes no
\* committed row and leaves nothing pending in the session, and (for a call
\* that reaches the balance check, i.e. of positive cost) returns
\* (False, current balance).
C7_InsufficientDebit ==
    [][\A s \in Sessions :
          (/\ pc[s] = "idle"
           /\ nops' = nops + 1
           /\ op'[s].kind = "deduct"
           /\ CommittedBalance < op'[s].cost)
          => /\ row' = row
             /\ txns' = txns
             /\ pend'[s] = pend[s]
             /\ dirty'[s] = dirty[s]
             /\ pc'[s] = "idle"
             /\ op'[s].cost > 0 =>
                    ret'[s] = [status |-> "insufficient",
                               balance |-> CommittedBalance]]_vars

C7_Witness ==
    /\ ret["s1"] = [status |-> "insufficient", balance |-> 1]
    /\ op["s1"].kind = "deduct"
    /\ row.balance = 1
    /\ Len(txns) = 2

\* C8: ledger atomicity. Every step, a commit, a failed commit or a crash
\* inside a call included, changes the committed balance by exactly the
\* amounts of the transaction rows it appends: no row without its balance
\* change, no balance change without its row.
C8_LedgerAtomicity ==
    [][/\ Len(txns') >= Len(txns)
       /\ SubSeq(txns', 1, Len(txns)) = txns
       /\ CommittedBalance' - CommittedBalance =
              SumAmount(SubSeq(txns', Len(txns) + 1, Len(txns')))]_vars

C8_Witness ==
    /\ ret["s1"].status = "error"
    /\ op["s1"].kind = "none"
    /\ Len(txns) >= 1
    /\ SumAmount(txns) = CommittedBalance


\* C3: every balance mutation holds the row lock from its read of the balance
\* to its commit, so no update is lost: once all calls have committed, the
\* balance is the starting balance (zero) plus the change of every committed
\* call.
C3_LockedMutations ==
    /\ \A s \in Sessions :
          (pc[s] = "commit" /\ op[s].call \in {"deduct", "add", "set", "initial", "drip"})
              => (lock = s \/ newrow[s])
    /\ AllIdle => CommittedBalance = credited - debited

(***************************************************************************)
(* The scoring pipeline (app/services/ai_scorer.py, site_fetcher.py,       *)
(* scorer.py), stage by stage. Category scores are counted in tenths of a  *)
(* point (7.5 is 75), confidences in hundredths; the model answers with    *)
(* whole and half points.                                                  *)
(***************************************************************************)
AiCategories == {"brand", "visual", "conversion", "trust", "a11y"}

AiTotal(cs) == cs.brand + cs.visual + cs.conversion + cs.trust + cs.a11y

\* The result of score_with_ai when the call or json.loads raises
AiFailed ==
    [category_scores |-> [k \in AiCategories |-> 0],
     insufficient_evidence |-> TRUE, confidence |-> 0, error |-> TRUE]

\* score_with_ai from the parsed answer on: the clamp of each category, the
\* upward adjustment int(v + (20 - total_ai) / 5), the clamp of confidence.
score_with_ai(response, text_word_count) ==
    IF ~response.ok THEN AiFailed
    ELSE LET cap == [brand |-> 120, visual |-> 100, conversion |-> 120,
                     trust |-> 100, a11y |-> 60]
             lo(a, b) == IF a < b THEN a ELSE b
             hi(a, b) == IF a > b THEN a ELSE b
             clamped == [k \in AiCategories |->
                            hi(0, lo(cap[k], response.category_scores[k]))]
             total_ai == AiTotal(clamped)
             adj == (200 - total_ai) \div 5
         IN  [category_scores |->
                  IF /\ response.insufficient_evidence
                     /\ total_ai < 200
                     /\ text_word_count > 150
                  THEN [k \in AiCategories |-> ((clamped[k] + adj) \div 10) * 10]
                  ELSE clamped,
              insufficient_evidence |-> response.insufficient_evidence,
              confidence |-> hi(0, lo(100, response.confidence)),
              error |-> FALSE]

\* The answers of the model: each category scored below, at, within or
\* above its range, in whole or half points; or no usable answer.
AiResponses ==
    {[ok |-> TRUE, category_scores |-> cs, insufficient_evidence |-> ie,
      confidence |-> 70] :
        cs \in [AiCategories -> {0 - 10, 0, 60, 75, 130}], ie \in BOOLEAN}
    \cup {[ok |-> FALSE, category_scores |-> [k \in AiCategories |-> 0],
            insufficient_evidence |-> FALSE, confidence |-> 0]}

EvalScoreWithAi(response, text_word_count) ==
    /\ calc = NoCalc
    /\ calc' = [fn |-> "score_with_ai",
                arg |-> <<response, text_word_count>>,
                res |-> score_with_ai(response, text_word_count)]
    /\ UNCHANGED <<ledger, sess, ghost, conf, work, maps, cachest>>

AiNext ==
    /\ calc = NoCalc
    /\ \E response \in AiResponses, text_word_count \in {150, 151} :
          EvalScoreWithAi(response, text_word_count)

AiSpec == SeqInit /\ [][AiNext]_vars

\* C23: AI score caps. Every result of score_with_ai, the adjusted ones
\* included, has each category score non-negative and within its cap
\* (brand 12, visual 10, conversion 12, trust 10, a11y 6), the five summing
\* to at most 50.
C23_AiScoreCaps ==
    calc.fn = "score_with_ai"
        => LET cs == calc.res.category_scores
           IN  /\ \A k \in AiCategories : cs[k] >= 0
               /\ cs.brand <= 120 /\ cs.visual <= 100 /\ cs.conversion <= 120
               /\ cs.trust <= 100 /\ cs.a11y <= 60
               /\ AiTotal(cs) <= 500

IsBlockedLax(status) == status \in {403, 401}

\* is_blocked = fetch_status in [403, 401, 429]
IsBlocked(status) == status \in {403, 401, 429}

combine_scores_heuristic(heuristic, ai_review) ==
    [final_score |-> heuristic.total_heuristic,
     heuristic_score |-> heuristic.total_heuristic,
     ai_score |-> 0,
     ai |-> ai_review.category_scores,
     rendering_limitations |-> heuristic.rendering_limitations,
     insufficient_evidence |-> ai_review.insufficient_evidence]

\* combine_scores: final_score = round(heuristic_total + ai_total), round()
\* taking a half to the even integer; ai_score = int(ai_total).
combine_scores(heuristic, ai_review) ==
    LET sum == AiTotal(ai_review.category_scores)
        ai_total == IF sum > 500 THEN 500 ELSE sum
        tenths == heuristic.total_heuristic * 10 + ai_total
        q == tenths \div 10
        r == tenths % 10
    IN  [final_score |-> IF r < 5 THEN q
                         ELSE IF r > 5 THEN q + 1
                         ELSE IF q % 2 = 0 THEN q ELSE q + 1,
         heuristic_score |-> heuristic.total_heuristic,
         ai_score |-> ai_total \div 10,
         ai |-> ai_review.category_scores,
         rendering_limitations |-> heuristic.rendering_limitations,
         insufficient_evidence |-> ai_review.insufficient_evidence]

\* score_website_hybrid(db, url, api_key) with use_cache=True, as a function
\* of what its stages meet: the cache lookup, the multi-page fetch (the
\* status is the homepage's, the HTML is that of all pages together), the
\* framework detection, the heuristics, the answer of the model, the cache
\* write. The result, or raised; and the stages that ran.
score_website_hybrid(run) ==
    LET none == [k \in AiCategories |-> 0]
        out(raised, result, stages) ==
            [raised |-> raised, result |-> result, stages |-> stages]
        degenerate ==
            [final_score |-> 0, heuristic_score |-> 0, ai_score |-> 0, ai |-> none,
             rendering_limitations |-> TRUE, insufficient_evidence |-> FALSE,
             has_errors |-> TRUE, bot_blocked |-> IsBlocked(run.status),
             cached |-> FALSE]
        static_html == run.homepage_html \/ run.page_html
        ai_review == score_with_ai(run.response, run.heuristic.text_word_count)
        combined == combine_scores(run.heuristic, ai_review)
        result == [final_score |-> combined.final_score,
                   heuristic_score |-> combined.heuristic_score,
                   ai_score |-> combined.ai_score, ai |-> combined.ai,
                   rendering_limitations |-> combined.rendering_limitations,
                   insufficient_evidence |-> combined.insufficient_evidence,
                   has_errors |-> FALSE, bot_blocked |-> FALSE, cached |-> FALSE]
    IN  IF run.cache = "raises" THEN out(TRUE, degenerate, {})
        ELSE IF run.cache = "hit"
        THEN out(FALSE, [degenerate EXCEPT !.final_score = 40, !.has_errors = FALSE,
                                           !.bot_blocked = FALSE, !.cached = TRUE,
                                           !.rendering_limitations = FALSE], {})
        ELSE IF ~static_html \/ IsBlocked(run.status)
        THEN out(FALSE, degenerate, {"fetch"})
        ELSE IF run.write = "query_raises"
        THEN out(TRUE, result, {"fetch", "heuristic", "ai"})
        ELSE IF run.write = "commit_fails"
        THEN out(FALSE, result, {"fetch", "heuristic", "ai"})
        ELSE out(FALSE, result, {"fetch", "heuristic", "ai", "cache_write"})

\* What a run of the pipeline can meet. The homepage has HTML only under
\* status 200; another page may have HTML whatever the homepage's status.
PipelineRuns ==
    {run \in
        [cache : {"miss", "hit", "raises"},
         status : {200, 401, 403, 429, 500},
         homepage_html : BOOLEAN, page_html : BOOLEAN,
         is_js_heavy : BOOLEAN,
         heuristic : [total_heuristic : {0, 27, 50},
                      rendering_limitations : BOOLEAN,
                      text_word_count : {150, 151}],
         response : {[ok |-> TRUE,
                      category_scores |-> [k \in AiCategories |->
                                              IF k = "brand" THEN b ELSE v],
                      insufficient_evidence |-> ie, confidence |-> 70] :
                        b \in {0, 75, 130}, v \in {0, 50, 130}, ie \in BOOLEAN}
                    \cup {[ok |-> FALSE,
                            category_scores |-> [k \in AiCategories |-> 0],
                            insufficient_evidence |-> FALSE, confidence |-> 0]},
         write : {"ok", "commit_fails", "query_raises"}] :
        run.homepage_html => run.status = 200}

EvalScoreWebsite(run) ==
    /\ calc = NoCalc
    /\ calc' = [fn |-> "score_website_hybrid", arg |-> <<run>>,
                res |-> score_website_hybrid(run)]
    /\ UNCHANGED <<ledger, sess, ghost, conf, work, maps, cachest>>

PipelineNext == calc = NoCalc /\ \E run \in PipelineRuns : EvalScoreWebsite(run)

PipelineSpec == SeqInit /\ [][PipelineNext]_vars

\* C21 as stated: when the homepage fetch ends with status 401, 403 or 429,
\* or yields no HTML, score_website_hybrid returns final_score 0 with
\* has_errors true and bot_blocked true exactly for those statuses, runs
\* neither the heuristics nor the AI call and writes nothing to the cache.
C21_HomepageBlockedOrEmpty ==
    (/\ calc.fn = "score_website_hybrid"
     /\ calc.arg[1].cache = "miss"
     /\ calc.arg[1].status \in {401, 403, 429} \/ ~calc.arg[1].homepage_html)
        => /\ ~calc.res.raised
           /\ calc.res.result.final_score = 0
           /\ calc.res.result.has_errors
           /\ calc.res.result.bot_blocked = (calc.arg[1].status \in {401, 403, 429})
           /\ calc.res.stages \cap {"heuristic", "ai", "cache_write"} = {}

\* C21, amended: the same outcome when the homepage status is 401, 403 or
\* 429, or when no page of the multi-page fetch yields HTML (a homepage
\* without HTML does not end the run while another page has some).
C21_BlockedOrEmptyFetch ==
    (/\ calc.fn = "score_website_hybrid"
     /\ calc.arg[1].cache = "miss"
     /\ \/ calc.arg[1].status \in {401, 403, 429}
        \/ ~(calc.arg[1].homepage_html \/ calc.arg[1].page_html))
        => /\ ~calc.res.raised
           /\ calc.res.result.final_score = 0
           /\ calc.res.result.has_errors
           /\ calc.res.result.bot_blocked = (calc.arg[1].status \in {401, 403, 429})
           /\ calc.res.stages \cap {"heuristic", "ai", "cache_write"} = {}

C21_Witness ==
    /\ calc.fn = "score_website_hybrid"
    /\ calc.arg[1].cache = "miss"
    /\ calc.arg[1].status = 429 /\ calc.arg[1].page_html
    /\ calc.res.result.bot_blocked /\ calc.res.result.has_errors
    /\ calc.res.stages = {"fetch"}

\* C22: the orchestrator never raises on a stage failure. Whenever the
\* fetch, the AI call, the cache lookup or the cache write fails,
\* score_website_hybrid returns a result; a failed AI stage contributes
\* all-zero category scores with insufficient_evidence true, and a failed
\* cache write leaves the returned result as it is without the failure.
C22_NeverRaises ==
    calc.fn = "score_website_hybrid"
        => /\ ~calc.res.raised
           /\ ("ai" \in calc.res.stages /\ ~calc.arg[1].response.ok)
                 => /\ calc.res.result.ai = [k \in AiCategories |-> 0]
                    /\ calc.res.result.insufficient_evidence
           /\ calc.arg[1].write = "commit_fails"
                 => calc.res.result
                        = score_website_hybrid([calc.arg[1] EXCEPT !.write = "ok"]).result

\* C24 as stated: for every run that reaches the combine step, final_score =
\* heuristic_total + min(50, sum of the AI category scores), an integer in
\* 0..100.
C24_FinalScoreIsSum ==
    (calc.fn = "score_website_hybrid" /\ "ai" \in calc.res.stages)
        => LET sum == AiTotal(calc.res.result.ai)
           IN  /\ calc.res.result.final_score * 10
                     = calc.arg[1].heuristic.total_heuristic * 10
                       + (IF sum > 500 THEN 500 ELSE sum)
               /\ calc.res.result.final_score \in 0..100

\* C24, amended: final_score is heuristic_total + min(50, sum of the AI
\* category scores) rounded to an integer, so within half a point of that
\* sum and equal to it whenever the sum is whole; it is in 0..100.
C24_FinalScoreRounded ==
    (calc.fn = "score_website_hybrid" /\ "ai" \in calc.res.stages)
        => LET sum == AiTotal(calc.res.result.ai)
               exact == calc.arg[1].heuristic.total_heuristic * 10
                        + (IF sum > 500 THEN 500 ELSE sum)
               final == calc.res.result.final_score
           IN  /\ final \in 0..100
               /\ final * 10 - exact \in (0 - 5)..5
               /\ exact % 10 = 0 => final * 10 = exact

C24_Witness ==
    /\ calc.fn = "score_website_hybrid" /\ "ai" \in calc.res.stages
    /\ calc.arg[1].heuristic.total_heuristic = 50
    /\ AiTotal(calc.res.result.ai) = 500
    /\ calc.res.result.final_score = 100

\* C25: the combined result carries rendering_limitations = the heuristic
\* scorer's flag OR the framework detector's is_js_heavy flag, for every
\* combination of the two.
C25_RenderingLimitations ==
    (calc.fn = "score_website_hybrid" /\ "ai" \in calc.res.stages)
        => calc.res.result.rendering_limitations
               = (calc.arg[1].heuristic.rendering_limitations
                  \/ calc.arg[1].is_js_heavy)

\* ---------------------------------------------------------------------
\* fetch_site_safely (site_fetcher.py): the retry loop over the outcomes of
\* its requests.

MaxRetries == 3

\* An input for IsRetried that retries 429 only.
IsRetriedLax(status) == status \in {429}

\* The statuses that are retried while attempts remain.
IsRetried(status) == status \in {429, 503}

\* What the primary request of one attempt meets (a response with its
\* status and text, or an exception of requests), and what the attempt's
\* extra request, if it makes one, meets.
FetchOutcomes ==
    LET answers == {[exc |-> "none", status |-> 200, text |-> t] :
                        t \in {"long", "garbled", "short"}}
                   \cup {[exc |-> "none", status |-> 202, text |-> t] :
                        t \in {"garbled", "short"}}
                   \cup {[exc |-> "none", status |-> st, text |-> "short"] :
                        st \in {429, 503, 403, 401, 500}}
        raises == {[exc |-> e, status |-> 0, text |-> "short"] :
                        e \in {"Timeout", "SSLError", "ConnectionError",
                               "TooManyRedirects", "Exception"}}
    IN  {o \in [primary : answers \cup raises, extra : {"ok", "not_ok", "raises"}] :
            (o.primary.text # "garbled" /\ o.primary.exc # "SSLError")
                => o.extra = "ok"}

\* The loop body from attempt `attempt` on (0-based, as range(max_retries)):
\* result.log lists the requests sent, in order.
RECURSIVE fetch_from(_, _, _, _)
fetch_from(script, max_retries, attempt, result) ==
    IF attempt >= max_retries THEN result
    ELSE
    LET o == script[attempt + 1]
        p == o.primary
        sent == Append(result.log, "primary")
        more == attempt < max_retries - 1
    IN  IF p.exc = "none"
        THEN LET r1 == [result EXCEPT !.status = p.status, !.log = sent]
             IN  IF p.status \in {200, 202}
                 THEN IF p.text = "garbled"
                      THEN LET r2 == [r1 EXCEPT !.log = Append(sent, "uncompressed")]
                           IN  IF o.extra = "ok"
                               THEN [r2 EXCEPT !.html = "page", !.status = 200]
                               ELSE IF more
                               THEN fetch_from(script, max_retries, attempt + 1, r2)
                               ELSE [r2 EXCEPT !.html = "garbled"]
                      ELSE IF p.text = "long" THEN [r1 EXCEPT !.html = "page"]
                      ELSE IF p.status = 202 THEN r1
                      ELSE [r1 EXCEPT !.html = "short"]
                 ELSE IF IsRetried(p.status) /\ more
                 THEN fetch_from(script, max_retries, attempt + 1, r1)
                 ELSE r1
        ELSE IF p.exc \in {"Timeout", "ConnectionError"}
        THEN IF more
             THEN fetch_from(script, max_retries, attempt + 1,
                             [result EXCEPT !.log = sent])
             ELSE [result EXCEPT !.log = sent]
        ELSE IF p.exc = "SSLError"
        THEN LET r2 == [result EXCEPT !.log = Append(sent, "unverified")]
             IN  IF o.extra = "ok"
                 THEN [r2 EXCEPT !.html = "page", !.status = 200]
                 ELSE r2
        ELSE [result EXCEPT !.log = sent]

fetch_site_safely(script, max_retries) ==
    fetch_from(script, max_retries, 0, [status |-> 0, html |-> "", log |-> <<>>])

EvalFetchSiteSafely(script, max_retries) ==
    /\ calc = NoCalc
    /\ calc' = [fn |-> "fetch_site_safely", arg |-> <<script, max_retries>>,
                res |-> fetch_site_safely(script, max_retries)]
    /\ UNCHANGED <<ledger, sess, ghost, conf, work, maps, cachest>>

FetchNext ==
    /\ calc = NoCalc
    /\ \E script \in [1..MaxRetries -> FetchOutcomes], max_retries \in 1..MaxRetries :
            EvalFetchSiteSafely(script, max_retries)

FetchSpec == SeqInit /\ [][FetchNext]_vars

\* C26: fetch_site_safely ends after at most max_retries primary requests;
\* a 429 or 503 answer is followed by another attempt while attempts remain;
\* a 401 or 403 answer is the last request of the fetch; an SSL failure is
\* followed by exactly one unverified request, which is the last; and an
\* uncompressed extra request comes at most once per attempt, right after
\* that attempt's primary request.
C26_FetchTerminates ==
    calc.fn = "fetch_site_safely" =>
        LET script == calc.arg[1]
            max_retries == calc.arg[2]
            log == calc.res.log
            primaries == {i \in DOMAIN log : log[i] = "primary"}
            n == Cardinality(primaries)
            pos(a) == CHOOSE i \in primaries :
                          Cardinality({j \in primaries : j <= i}) = a + 1
        IN  /\ n >= 1 /\ n <= max_retries
            /\ Cardinality({i \in DOMAIN log : log[i] = "unverified"}) <= 1
            /\ \A i \in DOMAIN log :
                   log[i] # "primary" => (i > 1 /\ log[i - 1] = "primary")
            /\ \A a \in 0..(n - 1) :
                   LET p == script[a + 1].primary
                   IN  /\ (p.status \in {429, 503} /\ a < max_retries - 1)
                             => n >= a + 2
                       /\ p.status \in {401, 403}
                             => pos(a) = Len(log)
                       /\ p.exc = "SSLError"
                             => /\ Len(log) = pos(a) + 1
                                /\ log[Len(log)] = "unverified"
                       /\ (\E i \in DOMAIN log : log[i] = "unverified")
                             => script[n].primary.exc = "SSLError"

C26_Witness ==
    /\ calc.fn = "fetch_site_safely"
    /\ calc.arg[2] = 3
    /\ calc.arg[1][1].primary.status = 503
    /\ calc.arg[1][2].primary.text = "garbled"
    /\ calc.arg[1][3].primary.exc = "SSLError"
    /\ calc.res.log = <<"primary", "primary", "uncompressed", "primary", "unverified">>

\* C30: in batch scoring every successful debit is matched by exactly one
\* lead outcome and is never refunded. Whenever the worker is between leads,
\* the usage transactions written equal the leads given an outcome after
\* their debit, which for the first batch is scored plus failed (a lead
\* whose scoring raised stays charged); no other row was written and the
\* balance is the starting balance minus one credit per usage row.
C30_DebitMatchedByOutcome ==
    pc["s1"] = "batch_loop"
        => LET usage == SelectSeq(txns, LAMBDA t : t.type = "usage")
           IN  /\ Len(usage) = nPaid
               /\ nops = 1 => Len(usage) = batch.scored + batch.failed
               /\ \A i \in 1..Len(txns) :
                      txns[i].type = "usage" \/ (i = 1 /\ txns[i].type = "purchase")
               /\ CommittedBalance = startBal - Len(usage) * CREDIT_COSTS.ai_scoring

C30_Witness ==
    /\ pc["s1"] = "batch_loop" /\ nops = 1
    /\ batch.scored = 1 /\ batch.failed = 1
    /\ Len(SelectSeq(txns, LAMBDA t : t.type = "usage")) = 2
    /\ CommittedBalance = startBal - 2

(***************************************************************************)
(* The batch worker and the status requests of a poller.                   *)
(***************************************************************************)
PollSpec == PaidInit /\ [][BatchNext \/ Poll]_vars

\* The worker thread, once started, keeps running: each of its steps is
\* taken when it stays possible (every call it makes returns or raises).
WorkerStep ==
    \/ BatchLoop("s1")
    \/ BatchDebited("s1")
    \/ BatchHalted("s1")
    \/ BatchDebitRaises("s1")
    \/ Commit("s1")

BatchLiveSpec == PaidInit /\ [][BatchNext]_vars /\ WF_vars(WorkerStep)

\* C27: batch liveness. Every batch registered by batch_score eventually
\* has status 'completed', whether it went through all its leads, halted on
\* insufficient credits or lost its worker to an uncaught error; from then
\* on its scored, failed and skipped counters and its status never change.
C27_BatchLiveness ==
    /\ (batch.status = "in_progress") ~> (batch.status = "completed")
    /\ [][(batch.status = "completed" /\ batch_status' = batch_status)
            => /\ batch'.status = "completed"
               /\ batch'.scored = batch.scored
               /\ batch'.failed = batch.failed
               /\ batch'.skipped = batch.skipped]_vars

C27_Witness ==
    /\ batch.status = "completed" /\ pc["s1"] = "idle"
    /\ ret["s1"].status = "error"
    /\ batch.total = 2 /\ batch.scored = 1 /\ batch.failed = 0 /\ batch.skipped = 0

\* C28: poll consistency. A status request that read 'completed' read the
\* final entry of the batch: while that batch is the latest one, its entry
\* is what the request saw, the insufficient-credits error included.
C28_PollConsistency ==
    (/\ polled.seen.status = "completed"
     /\ batch_status # <<>>
     /\ polled.id = batch_status[Len(batch_status)])
        => polled.seen = batch

\* C29: over any sequence of issue_initial_credits and
\* issue_credits_for_user calls within one subscription period, the issuance
\* cursor is an integer in 0..4 and never decreases, and the
\* subscription_accrual credits issued in the period never total more than
\* the plan's monthly allowance.
C29_CursorAndAllowance ==
    /\ [](/\ cstate.cursor \in 0..4
          /\ SumAmount(SelectSeq(txns, LAMBDA t : t.type = "subscription_accrual"))
                <= PLAN_CONFIG.starter_monthly)
    /\ [][cstate'.cursor >= cstate.cursor]_vars

====
